---- MODULE Spec2Model ----
(***************************************************************************)
(* Model of shinra: the positional text index (shinra/content.py, class    *)
(* Content), the HTML cleaner (_HtmlCleaner) and the annotation inspection *)
(* (shinra/inspection/annotation.py).                                      *)
(*                                                                         *)
(* A text is a sequence of characters; a character is a one-element token  *)
(* (a string).  Python indices are 0-based, TLA+ sequences 1-based: the    *)
(* element at Python index k of s is s[k + 1].                             *)
(***************************************************************************)
EXTENDS Integers, Sequences, FiniteSets, TLC

\* ------------------------------------------------------------------ bounds
\* Texts of up to MaxLen characters over Alphabet are enumerated in full.
MaxLen == 3
\* Query arguments (offsets, line ids, columns) range up to MaxLen + Slack.
Slack == 1

\* -------------------------------------------------------------- characters
NL == "\n"
SP == " "
LT == "<"
GT == ">"
\* U+2028 LINE SEPARATOR: one character, not a newline for split('\n').
LS == "u2028"

Alphabet == {NL, SP, "a", LT, GT, "/", "!"}

Min(a, b) == IF a < b THEN a ELSE b
Max(a, b) == IF a < b THEN b ELSE a

\* All texts of length 0..n over the characters cs.
StringsUpTo(cs, n) == UNION {[1..k -> cs] : k \in 0..n}

\* ------------------------------------------------------- python primitives
\* len(t[a:b]) and t[a:b] for a Python slice: a negative index counts from
\* the end, an index past the end is clamped.
SliceIndex(t, k) == IF k < 0 THEN Max(k + Len(t), 0) ELSE Min(k, Len(t))

\* Mutant of Slice: the end index is taken inclusive.
SliceInclusive(t, a, b) == SubSeq(t, SliceIndex(t, a) + 1, SliceIndex(t, b) + 1)

Slice(t, a, b) == SubSeq(t, SliceIndex(t, a) + 1, SliceIndex(t, b))

\* t[k] for a Python tuple or list: a negative k counts from the end,
\* anything else outside the range raises IndexError.
InRange(t, k) == -Len(t) <= k /\ k < Len(t)

Item(t, k) == IF k < 0 THEN t[Len(t) + k + 1] ELSE t[k + 1]

\* Mutant of SplitLines: the text is split as by splitlines, at U+2028 too.
RECURSIVE SplitLinesAtSeparators(_)
SplitLinesAtSeparators(t) ==
    IF \A k \in 1..Len(t) : t[k] \notin {NL, LS}
    THEN <<t>>
    ELSE LET k == CHOOSE k \in 1..Len(t) :
                      t[k] \in {NL, LS} /\ \A m \in 1..(k - 1) : t[m] \notin {NL, LS}
         IN <<SubSeq(t, 1, k - 1)>> \o SplitLinesAtSeparators(SubSeq(t, k + 1, Len(t)))

\* text.split('\n'): the pieces between the newlines, as a tuple of texts.
RECURSIVE SplitLines(_)
SplitLines(t) ==
    IF \A k \in 1..Len(t) : t[k] # NL
    THEN <<t>>
    ELSE LET k == CHOOSE k \in 1..Len(t) :
                      t[k] = NL /\ \A m \in 1..(k - 1) : t[m] # NL
         IN <<SubSeq(t, 1, k - 1)>> \o SplitLines(SubSeq(t, k + 1, Len(t)))

\* bisect.bisect_right(a, x, lo, hi): binary search for the insertion point
\* to the right of every element <= x.
RECURSIVE BisectRight(_, _, _, _)
BisectRight(a, x, lo, hi) ==
    IF lo < hi
    THEN LET mid == (lo + hi) \div 2
         IN IF x < a[mid + 1]
            THEN BisectRight(a, x, lo, mid)
            ELSE BisectRight(a, x, mid + 1, hi)
    ELSE lo

\* ----------------------------------------------------------------- Content
\* Mutant of GenLineOffsetsFrom: the "+ 1 for '\n'" is forgotten.
RECURSIVE GenLineOffsetsNoNewline(_, _)
GenLineOffsetsNoNewline(lines, offset) ==
    IF lines = <<>>
    THEN <<offset>>
    ELSE <<offset>> \o GenLineOffsetsNoNewline(Tail(lines), offset + Len(Head(lines)))

\* Content._gen_line_offsets, after k lines were consumed: yields offset for
\* each line of split('\n'), advancing by len(line) + 1, then a last offset.
RECURSIVE GenLineOffsetsFrom(_, _)
GenLineOffsetsFrom(lines, offset) ==
    IF lines = <<>>
    THEN <<offset>>
    ELSE <<offset>> \o GenLineOffsetsFrom(Tail(lines), offset + Len(Head(lines)) + 1)

\* Mutant of GenLineOffsets: the final "yield offset" is forgotten.
GenLineOffsetsNoSentinel(raw) ==
    LET table == GenLineOffsetsFrom(SplitLines(raw), 0)
    IN SubSeq(table, 1, Len(table) - 1)

GenLineOffsets(raw) == GenLineOffsetsFrom(SplitLines(raw), 0)

\* Mutant of GetCharOffset: the line id is added instead of the line start.
GetCharOffsetNoTable(table, line_id, offset) == line_id + offset

\* Content.get_char_offset: defined when InRange(table, line_id).
GetCharOffset(table, line_id, offset) == Item(table, line_id) + offset

\* Content.get_line_offset: defined when char_offset >= 0.
GetLineOffset(table, char_offset) ==
    LET i == BisectRight(table, char_offset, 0, Len(table))
        line_id == i - 1
    IN <<line_id, char_offset - Item(table, line_id)>>

\* Content.get_text_by_char_offset.
GetTextByCharOffset(raw, start_char_offset, end_char_offset) ==
    Slice(raw, start_char_offset, end_char_offset)

\* Content.get_text: defined when both line ids are InRange.
GetText(raw, table, start_line_id, start_offset, end_line_id, end_offset) ==
    GetTextByCharOffset(raw,
                        GetCharOffset(table, start_line_id, start_offset),
                        GetCharOffset(table, end_line_id, end_offset))

\* Mutant of GetLastLineOffset: the offset of the last character is taken
\* instead of the offset one past it.
GetLastLineOffsetOfLastChar(raw, table) == GetLineOffset(table, Len(raw) - 1)

\* Content.get_last_line_offset.
GetLastLineOffset(raw, table) == GetLineOffset(table, Len(raw))

\* ------------------------------------------------------------ _HtmlCleaner
LowerLetters ==
    <<"a", "b", "c", "d", "e", "f", "g", "h", "i", "j", "k", "l", "m",
      "n", "o", "p", "q", "r", "s", "t", "u", "v", "w", "x", "y", "z">>

UpperLetters ==
    <<"A", "B", "C", "D", "E", "F", "G", "H", "I", "J", "K", "L", "M",
      "N", "O", "P", "Q", "R", "S", "T", "U", "V", "W", "X", "Y", "Z">>

Letters == {LowerLetters[k] : k \in 1..26} \cup {UpperLetters[k] : k \in 1..26}

\* str.lower(), character by character.
LowerChar(c) ==
    IF \E k \in 1..26 : UpperLetters[k] = c
    THEN LowerLetters[CHOOSE k \in 1..26 : UpperLetters[k] = c]
    ELSE c

Lower(t) == [k \in 1..Len(t) |-> LowerChar(t[k])]

\* The characters str.strip() removes (str.isspace()): among them the space,
\* the newline, the tab, U+00A0 and U+2028.
TAB == "\t"
NBSP == "u00a0"
Whitespace == {SP, NL, TAB, NBSP, LS}

\* str.strip(): without the leading and the trailing whitespace.
Strip(t) ==
    LET solid == {k \in 1..Len(t) : t[k] \notin Whitespace}
    IN IF solid = {}
       THEN <<>>
       ELSE SubSeq(t, CHOOSE k \in solid : \A m \in solid : k <= m,
                      CHOOSE k \in solid : \A m \in solid : m <= k)

\* raw[k] at Python index k, or "" outside the text.
At(t, k) == IF 0 <= k /\ k < Len(t) THEN t[k + 1] ELSE ""

\* t.startswith(prefix, k)
StartsWith(t, prefix, k) ==
    /\ 0 <= k /\ k + Len(prefix) <= Len(t)
    /\ SubSeq(t, k + 1, k + Len(prefix)) = prefix

\* t.find(sub, start): the lowest index >= start where sub begins, or -1.
Find(t, sub, start) ==
    LET hits == {k \in start..Len(t) : StartsWith(t, sub, k)}
    IN IF hits = {} THEN 0 - 1 ELSE CHOOSE k \in hits : \A m \in hits : k <= m

\* HTMLParser.getpos() when the tokenizer stands at index i of the text fed:
\* (lineno, offset), lineno counted from 1 by the '\n' before i, offset
\* counted from the character after the last of them.
Getpos(raw, i) ==
    LET nls == {k \in 1..i : raw[k] = NL}
    IN <<1 + Cardinality(nls),
         IF nls = {} THEN i ELSE i - (CHOOSE k \in nls : \A m \in nls : m <= k)>>

\* _HtmlCleaner._get_position
GetPosition(raw, i) == <<Getpos(raw, i)[1] - 1, Getpos(raw, i)[2]>>

\* The char_offset every handler computes from _get_position().
HandlerCharOffset(raw, table, i) ==
    GetCharOffset(table, GetPosition(raw, i)[1], GetPosition(raw, i)[2])

\* _HtmlCleaner._is_newline
IsNewline(char) == char = NL

\* Mutant of SetBlank: the newline test is forgotten.
SetBlankOverNewlines(cleaned, start_char_offset, end_char_offset) ==
    [k \in 1..Len(cleaned) |->
        IF start_char_offset <= k - 1 /\ k - 1 < end_char_offset
        THEN SP
        ELSE cleaned[k]]

\* Mutant of SetBlank: a blanked position is deleted instead of overwritten.
SetBlankDeleting(cleaned, start_char_offset, end_char_offset) ==
    SubSeq(cleaned, 1, Min(Max(start_char_offset, 0), Len(cleaned)))
        \o SubSeq(cleaned, Max(end_char_offset, start_char_offset) + 1, Len(cleaned))

\* _HtmlCleaner._set_blank: the list after the loop over
\* range(start_char_offset, end_char_offset); the loop raises IndexError at
\* the first index past the list (SetBlankRaises), having blanked up to it.
SetBlank(cleaned, start_char_offset, end_char_offset) ==
    [k \in 1..Len(cleaned) |->
        IF /\ start_char_offset <= k - 1 /\ k - 1 < end_char_offset
           /\ ~IsNewline(cleaned[k])
        THEN SP
        ELSE cleaned[k]]

SetBlankRaises(cleaned, start_char_offset, end_char_offset) ==
    /\ start_char_offset < end_char_offset
    /\ end_char_offset > Len(cleaned)

\* _HtmlCleaner._is_script_tag
ScriptName == <<"s", "c", "r", "i", "p", "t">>

IsScriptTag(tag) == Lower(Strip(tag)) = ScriptName

\* The tag name the tokenizer reports for a tag whose name starts at index k:
\* the characters up to the first whitespace, '/' or '>', lower-cased.
TagName(raw, k) ==
    LET stops == {m \in k..(Len(raw) - 1) : At(raw, m) \in Whitespace \cup {"/", GT}}
        stop == IF stops = {} THEN Len(raw) ELSE CHOOSE m \in stops : \A x \in stops : m <= x
    IN Lower(SubSeq(raw, k + 1, stop))

\* ------------------------------------------------------------------- state
VARIABLES
    built,            \* "none" before Content(...), "ok" after, "failed" on assert
    raw_content,      \* Content._raw_content
    line_offsets,     \* Content._line_offsets
    ret,              \* the last call on the Content and what it returned
    clean_state,      \* "idle", "feeding" (inside feed), "returned", "raised", "dropped"
    cleaned_content,  \* _HtmlCleaner._cleaned_content
    script_tag_stack, \* _HtmlCleaner._script_tag_stack
    rawpos,           \* the index in the text the tokenizer stands at
    event,            \* the last tokenizer event handled
    overlap_state,    \* _detect_overlap_annotations: "idle", "returned", "raised"
    sorted_indexed_annotations, \* its argument
    overlap_results,  \* what it yielded, in order
    view,             \* "html" (_check_html_text), "text" (_check_text_text), "none"
    check_state,      \* the check: "idle", "loop", "returned", "raised"
    clean_content,    \* clean_content of _check_html_text
    annotations,      \* the annotations argument
    ann_index,        \* how many annotations the first loop has handled
    annotations_by_attribute, \* the groups, in the order the keys were added
    results,          \* the _InspectResult records yielded, in order
    page_state,       \* _inspect_page_task: "idle", "returned"
    page_results,     \* the tuple _inspect_page_task returned
    inspect_state,    \* inspect_annotations_by_category: "idle", "collecting", "returned", "raised"
    task_results,     \* what _inspect_annotations_task gives for each page
    completed,        \* the pages whose result imap_unordered has yielded, in order
    rows,             \* the rows written after the header, in order
    error_count_by_type \* error_count_by_type of the category

content_vars == <<built, raw_content, line_offsets>>
cleaner_vars == <<clean_state, cleaned_content, script_tag_stack, rawpos, event>>
overlap_vars == <<overlap_state, sorted_indexed_annotations, overlap_results>>
check_vars == <<view, check_state, clean_content, annotations, ann_index,
                annotations_by_attribute, results>>
task_vars == <<page_state, page_results,
               inspect_state, task_results, completed, rows, error_count_by_type>>
vars == <<built, raw_content, line_offsets, ret,
          clean_state, cleaned_content, script_tag_stack, rawpos, event,
          overlap_state, sorted_indexed_annotations, overlap_results,
          view, check_state, clean_content, annotations, ann_index,
          annotations_by_attribute, results,
          page_state, page_results,
          inspect_state, task_results, completed, rows, error_count_by_type>>

\* What a call returned: ok = FALSE when it raised, val the integers returned,
\* text the characters returned.
Ret(op, args, ok, val, text) ==
    [op |-> op, args |-> args, ok |-> ok, val |-> val, text |-> text]

NoRet == Ret("none", <<>>, TRUE, <<>>, <<>>)

\* A tokenizer event: the handler called, the index the construct starts at,
\* the index one past its end, the script stack depth before the handler ran
\* and the cleaned list before the handler ran.
Event(kind, start, end, depth, before) ==
    [kind |-> kind, start |-> start, end |-> end, depth |-> depth, before |-> before]

NoEvent == Event("none", 0, 0, 0, <<>>)

CleanerIdle ==
    /\ clean_state = "idle"
    /\ cleaned_content = <<>>
    /\ script_tag_stack = <<>>
    /\ rawpos = 0
    /\ event = NoEvent

OverlapIdle ==
    /\ overlap_state = "idle"
    /\ sorted_indexed_annotations = <<>>
    /\ overlap_results = <<>>

\* A Content as a value: its text and its table.
ContentOf(raw) == [raw_content |-> raw, line_offsets |-> GenLineOffsets(raw)]

NoContent == [raw_content |-> <<>>, line_offsets |-> <<>>]

CheckIdle ==
    /\ check_state = "idle"
    /\ clean_content = NoContent
    /\ annotations = <<>>
    /\ ann_index = 0
    /\ annotations_by_attribute = <<>>
    /\ results = <<>>

\* No page task and no category inspection has run.
TasksIdle ==
    /\ page_state = "idle"
    /\ page_results = <<>>
    /\ inspect_state = "idle"
    /\ task_results = <<>>
    /\ completed = <<>>
    /\ rows = <<>>
    /\ error_count_by_type = <<>>

Args == (0 - 1)..(MaxLen + Slack)

Init ==
    /\ built = "none"
    /\ raw_content = <<>>
    /\ line_offsets = <<>>
    /\ ret = NoRet
    /\ CleanerIdle
    /\ OverlapIdle
    /\ view = "none"
    /\ CheckIdle
    /\ TasksIdle

\* Mutant of AssertRawContent: a text of whitespace only is rejected too.
AssertRawContentStripped(raw) == Strip(raw) # <<>>

\* "assert raw_content": a str is true when it is not empty.
AssertRawContent(raw) == Len(raw) > 0

\* Content.__init__(raw_content): assert raw_content, then build the table.
\* ret keeps the argument and whether the constructor returned.
ContentInit(raw) ==
    /\ built = "none"
    /\ IF ~AssertRawContent(raw)
       THEN /\ built' = "failed"
            /\ UNCHANGED <<raw_content, line_offsets>>
       ELSE /\ built' = "ok"
            /\ line_offsets' = GenLineOffsets(raw)
            /\ raw_content' = raw
    /\ ret' = Ret("Content", <<raw>>, AssertRawContent(raw), <<>>, <<>>)
    /\ UNCHANGED <<task_vars, cleaner_vars, overlap_vars, check_vars>>

\* content.get_char_offset(line_id, offset)
GetCharOffsetCall(line_id, offset) ==
    /\ built = "ok"
    /\ ret' = IF InRange(line_offsets, line_id)
              THEN Ret("get_char_offset", <<line_id, offset>>, TRUE,
                       <<GetCharOffset(line_offsets, line_id, offset)>>, <<>>)
              ELSE Ret("get_char_offset", <<line_id, offset>>, FALSE, <<>>, <<>>)
    /\ UNCHANGED <<task_vars, content_vars, cleaner_vars, overlap_vars, check_vars>>

\* content.get_line_offset(char_offset)
GetLineOffsetCall(char_offset) ==
    /\ built = "ok"
    /\ ret' = IF char_offset >= 0
              THEN Ret("get_line_offset", <<char_offset>>, TRUE,
                       GetLineOffset(line_offsets, char_offset), <<>>)
              ELSE Ret("get_line_offset", <<char_offset>>, FALSE, <<>>, <<>>)
    /\ UNCHANGED <<task_vars, content_vars, cleaner_vars, overlap_vars, check_vars>>

\* content.get_last_line_offset()
GetLastLineOffsetCall ==
    /\ built = "ok"
    /\ ret' = Ret("get_last_line_offset", <<>>, TRUE,
                  GetLastLineOffset(raw_content, line_offsets), <<>>)
    /\ UNCHANGED <<task_vars, content_vars, cleaner_vars, overlap_vars, check_vars>>

\* Texts with U+2028 are given to Content too.
SeparatorAlphabet == {NL, LS, "a"}

Next ==
    \/ \E raw \in StringsUpTo(Alphabet, MaxLen) \cup StringsUpTo(SeparatorAlphabet, MaxLen) :
           ContentInit(raw)
    \/ \E line_id \in Args, offset \in 0..(MaxLen + Slack) :
           GetCharOffsetCall(line_id, offset)
    \/ \E char_offset \in Args : GetLineOffsetCall(char_offset)
    \/ GetLastLineOffsetCall

Spec == Init /\ [][Next]_vars

\* ------------------------------------------------- claims about Content
\* The number of newline characters among the first n characters of t.
NewlinesBefore(t, n) == Cardinality({k \in 1..n : t[k] = NL})

\* The length of the last '\n'-delimited line of t.
LastLineLength(t) ==
    LET nls == {k \in 1..Len(t) : t[k] = NL}
    IN IF nls = {} THEN Len(t) ELSE Len(t) - (CHOOSE k \in nls : \A m \in nls : m <= k)

\* C1: whenever get_line_offset(o) returned (line_id, column) for an offset
\* o >= 0, get_char_offset(line_id, column) is defined and equals o.
C1_RoundTrip ==
    (ret.op = "get_line_offset" /\ ret.ok) =>
        /\ InRange(line_offsets, ret.val[1])
        /\ GetCharOffset(line_offsets, ret.val[1], ret.val[2]) = ret.args[1]

\* C1 witness: an offset past the first line was converted.
C1_Witness ==
    /\ ret.op = "get_line_offset" /\ ret.ok
    /\ ret.val[1] > 0 /\ ret.val[2] > 0

\* C2: get_last_line_offset() converts back to len(text); its line id is the
\* index of the last '\n'-delimited line and its column that line's length.
C2_LastLineOffset ==
    ret.op = "get_last_line_offset" =>
        /\ InRange(line_offsets, ret.val[1])
        /\ GetCharOffset(line_offsets, ret.val[1], ret.val[2]) = Len(raw_content)
        /\ ret.val[1] = NewlinesBefore(raw_content, Len(raw_content))
        /\ ret.val[2] = LastLineLength(raw_content)

\* C2 witness: the last line is neither the first line nor empty.
C2_Witness ==
    /\ ret.op = "get_last_line_offset"
    /\ ret.val[1] > 0 /\ ret.val[2] > 0

\* The shape the line-start table has for the text it was built from.
TableShape ==
    /\ line_offsets[1] = 0
    /\ \A k \in 1..(Len(line_offsets) - 1) : line_offsets[k] <= line_offsets[k + 1]
    /\ Len(line_offsets) = (NewlinesBefore(raw_content, Len(raw_content)) + 1) + 1

\* C3: once a Content is built, entry[0] = 0, the entries are non-decreasing,
\* there is one entry per '\n'-delimited line plus one, and no operation
\* changes the table (or the text) afterwards.
C3_TableInvariant ==
    /\ [](built = "ok" => TableShape)
    /\ [][built = "ok" =>
             /\ built' = "ok"
             /\ line_offsets' = line_offsets
             /\ raw_content' = raw_content]_vars

\* C3 witness: a table of three lines, after a call on the Content.
C3_Witness ==
    /\ built = "ok" /\ Len(line_offsets) = 4
    /\ ret.op = "get_line_offset"

\* C4 as stated: the final entry of the table equals len(text).
C4_SentinelIsLen ==
    built = "ok" => Item(line_offsets, 0 - 1) = Len(raw_content)

\* C4 amended: the final entry of the table equals len(text) + 1: every line,
\* the last included, advances the offset by its length plus one.
C4_SentinelIsLenPlusOne ==
    built = "ok" => Item(line_offsets, 0 - 1) = Len(raw_content) + 1

\* C4 witness: a built table for a text of several lines.
C4_Witness ==
    /\ built = "ok" /\ Len(line_offsets) >= 3
    /\ Item(line_offsets, 0 - 1) = Len(raw_content) + 1

\* ------------------------------------------------------- cleaning a text
\* Documents longer than MaxLen, one per construct the tokenizer knows.
DocScript ==
    <<LT, "s", "c", "r", "i", "p", "t", GT, "a", LT, "/", "s", "c", "r", "i", "p", "t", GT, "b">>

DocEndScript ==
    <<"a", LT, "/", "s", "c", "r", "i", "p", "t", GT>>

DocComment ==
    <<LT, "!", "-", "-", "a", NL, "b", "-", "-", GT, "c">>

DocBogusComment ==
    <<LT, "!", "a", GT, "b", "c", "d", "e", "f">>

DocDoctype ==
    <<LT, "!", "D", "O", "C", "T", "Y", "P", "E", SP, "a", GT, NL, "b">>

DocQuotedGt ==
    <<LT, "a", SP, "b", "=", "'", GT, "'", GT, "c">>

DocEntities ==
    <<"a", "&", "l", "t", ";", "&", "#", "3", "8", ";", "b">>

DocStartEnd ==
    <<LT, "b", "r", NL, "/", GT, "a">>

DocUpperScript ==
    <<LT, "S", "C", "R", "I", "P", "T", GT, NL, "a">>

DocBogusCommentEntity ==
    <<LT, "!", "a", GT, "&", "l", "t", ";">>

SampleDocs ==
    {DocScript, DocEndScript, DocComment, DocBogusComment, DocDoctype,
     DocQuotedGt, DocEntities, DocStartEnd, DocUpperScript, DocBogusCommentEntity}

CleanerTexts == (StringsUpTo(Alphabet, MaxLen) \ {<<>>}) \cup SampleDocs

\* The cleaner is given a Content built from one of the texts.
InitCleaner ==
    /\ \E raw \in CleanerTexts :
           /\ raw_content = raw
           /\ line_offsets = GenLineOffsets(raw)
    /\ built = "ok"
    /\ ret = NoRet
    /\ CleanerIdle
    /\ OverlapIdle
    /\ view = "none"
    /\ CheckIdle
    /\ TasksIdle

\* _HtmlCleaner.clean up to the call of feed.
Clean ==
    /\ built = "ok"
    /\ clean_state = "idle"
    /\ clean_state' = "feeding"
    /\ script_tag_stack' = <<>>
    /\ cleaned_content' = raw_content
    /\ rawpos' = 0
    /\ event' = NoEvent
    /\ UNCHANGED <<task_vars, content_vars, ret, overlap_vars, check_vars>>

\* What clean_html gives its caller when a handler raised.
Raised == Ret("clean_html", <<>>, FALSE, <<>>, <<>>)

\* A handler ran on the construct [rawpos, end): it left the list cleaned and
\* the stack stack, or raised (the exception leaves feed, clean and
\* clean_html).
Handled(kind, end, cleaned, stack, raised) ==
    /\ cleaned_content' = cleaned
    /\ script_tag_stack' = IF raised THEN script_tag_stack ELSE stack
    /\ clean_state' = IF raised THEN "raised" ELSE "feeding"
    /\ rawpos' = IF raised THEN rawpos ELSE end
    /\ ret' = IF raised THEN Raised ELSE ret
    /\ event' = Event(kind, rawpos, end, Len(script_tag_stack), cleaned_content)
    /\ UNCHANGED <<task_vars, content_vars, overlap_vars, check_vars>>

\* _HtmlCleaner._clear_tag: the range handed to _set_blank.
ClearTagStart == HandlerCharOffset(raw_content, line_offsets, rawpos)

ClearTagEnd == Find(raw_content, <<GT>>, ClearTagStart) + 1

\* Mutant of ClearTag: blanks up to the '>' but not the '>' itself.
ClearTagKeepGt == SetBlank(cleaned_content, ClearTagStart, ClearTagEnd - 1)

ClearTag == SetBlank(cleaned_content, ClearTagStart, ClearTagEnd)

ClearTagRaises == SetBlankRaises(cleaned_content, ClearTagStart, ClearTagEnd)

\* The tokenizer stands at a start tag: '<', a letter, and a '>' at index gt
\* ending the tag (not always the first '>': a quoted attribute value may
\* hold one).
AtStartTag(gt) ==
    /\ At(raw_content, rawpos) = LT
    /\ At(raw_content, rawpos + 1) \in Letters
    /\ rawpos < gt /\ At(raw_content, gt) = GT

\* _HtmlCleaner.handle_starttag
HandleStarttag(gt) ==
    /\ clean_state = "feeding"
    /\ AtStartTag(gt) /\ At(raw_content, gt - 1) # "/"
    /\ LET tag == TagName(raw_content, rawpos + 1)
       IN Handled("starttag", gt + 1, ClearTag,
                  IF IsScriptTag(tag)
                  THEN Append(script_tag_stack, tag)
                  ELSE script_tag_stack,
                  ClearTagRaises)

\* _HtmlCleaner.handle_startendtag
HandleStartendtag(gt) ==
    /\ clean_state = "feeding"
    /\ AtStartTag(gt) /\ At(raw_content, gt - 1) = "/"
    /\ Handled("startendtag", gt + 1, ClearTag, script_tag_stack, ClearTagRaises)

\* _HtmlCleaner.handle_endtag: '</', a letter, and the first '>' after them.
\* list.pop() raises IndexError on an empty stack.
HandleEndtag ==
    /\ clean_state = "feeding"
    /\ StartsWith(raw_content, <<LT, "/">>, rawpos)
    /\ At(raw_content, rawpos + 2) \in Letters
    /\ Find(raw_content, <<GT>>, rawpos + 1) >= 0
    /\ LET tag == TagName(raw_content, rawpos + 2)
           gt == Find(raw_content, <<GT>>, rawpos + 1)
       IN Handled("endtag", gt + 1, ClearTag,
                  IF IsScriptTag(tag) /\ script_tag_stack # <<>>
                  THEN SubSeq(script_tag_stack, 1, Len(script_tag_stack) - 1)
                  ELSE script_tag_stack,
                  ClearTagRaises \/ (IsScriptTag(tag) /\ script_tag_stack = <<>>))

CommentOpen == <<LT, "!", "-", "-">>
CommentClose == <<"-", "-", GT>>
DoctypeOpen == <<LT, "!", "d", "o", "c", "t", "y", "p", "e">>

AtDoctype ==
    /\ rawpos + 9 <= Len(raw_content)
    /\ Lower(SubSeq(raw_content, rawpos + 1, rawpos + 9)) = DoctypeOpen

\* The tokenizer stands at '<!--' ... '-->'.
AtComment ==
    /\ StartsWith(raw_content, CommentOpen, rawpos)
    /\ Find(raw_content, CommentClose, rawpos + 4) >= 0

\* The tokenizer stands at what it reports as a comment without it being one:
\* '<!' ... '>' that is no comment, marked section or doctype, or '</'
\* followed by something that is no name.
AtBogusComment ==
    /\ \/ /\ StartsWith(raw_content, <<LT, "!">>, rawpos)
          /\ ~StartsWith(raw_content, CommentOpen, rawpos)
          /\ At(raw_content, rawpos + 2) # "["
          /\ ~AtDoctype
       \/ /\ StartsWith(raw_content, <<LT, "/">>, rawpos)
          /\ At(raw_content, rawpos + 2) \notin Letters \cup {GT}
    /\ Find(raw_content, <<GT>>, rawpos + 2) >= 0

\* _HtmlCleaner.handle_comment(data): data lies between '<!--' and '-->', or
\* for a bogus comment between the two opening characters and the '>'.
\* 7 is len('<!--') + len('-->').
CommentBlankLen == 7

HandleComment(bogus) ==
    /\ clean_state = "feeding"
    /\ IF bogus THEN AtBogusComment ELSE AtComment
    /\ LET data_start == IF bogus THEN rawpos + 2 ELSE rawpos + 4
           data_end == IF bogus
                       THEN Find(raw_content, <<GT>>, rawpos + 2)
                       ELSE Find(raw_content, CommentClose, rawpos + 4)
           end == IF bogus THEN data_end + 1 ELSE data_end + 3
           char_offset == HandlerCharOffset(raw_content, line_offsets, rawpos)
           blank_end == char_offset + (data_end - data_start) + CommentBlankLen
       IN Handled("comment", end,
                  SetBlank(cleaned_content, char_offset, blank_end),
                  script_tag_stack,
                  SetBlankRaises(cleaned_content, char_offset, blank_end))

\* _HtmlCleaner.handle_decl(decl): decl lies between '<!' and the first '>'
\* of a doctype declaration.  3 is len('<!') + len('>').
DeclBlankLen == 3

HandleDecl ==
    /\ clean_state = "feeding"
    /\ AtDoctype
    /\ Find(raw_content, <<GT>>, rawpos + 9) >= 0
    /\ LET gt == Find(raw_content, <<GT>>, rawpos + 9)
           char_offset == HandlerCharOffset(raw_content, line_offsets, rawpos)
           blank_end == char_offset + (gt - (rawpos + 2)) + DeclBlankLen
       IN Handled("decl", gt + 1,
                  SetBlank(cleaned_content, char_offset, blank_end),
                  script_tag_stack,
                  SetBlankRaises(cleaned_content, char_offset, blank_end))

\* _HtmlCleaner.handle_data(data): data is the n characters from rawpos on.
HandleData(n) ==
    /\ clean_state = "feeding"
    /\ 1 <= n /\ rawpos + n <= Len(raw_content)
    /\ LET char_offset == HandlerCharOffset(raw_content, line_offsets, rawpos)
       IN IF script_tag_stack # <<>>
          THEN Handled("data", rawpos + n,
                       SetBlank(cleaned_content, char_offset, char_offset + n),
                       script_tag_stack,
                       SetBlankRaises(cleaned_content, char_offset, char_offset + n))
          ELSE Handled("data", rawpos + n, cleaned_content, script_tag_stack, FALSE)

\* _HtmlCleaner.handle_entityref(name): '&', a letter, n characters in all.
HandleEntityref(n) ==
    /\ clean_state = "feeding"
    /\ At(raw_content, rawpos) = "&"
    /\ At(raw_content, rawpos + 1) \in Letters
    /\ 2 <= n /\ rawpos + n <= Len(raw_content)
    /\ Handled("entityref", rawpos + n, cleaned_content, script_tag_stack, FALSE)

\* _HtmlCleaner.handle_charref(name): '&#', a digit, n characters in all.
HandleCharref(n) ==
    /\ clean_state = "feeding"
    /\ StartsWith(raw_content, <<"&", "#">>, rawpos)
    /\ 3 <= n /\ rawpos + n <= Len(raw_content)
    /\ Handled("charref", rawpos + n, cleaned_content, script_tag_stack, FALSE)

\* feed returns, at the end of the text or where an unfinished construct or
\* an open script element makes the tokenizer wait for more text, and clean
\* returns ''.join(self._cleaned_content).
CleanReturn ==
    /\ clean_state = "feeding"
    /\ \/ rawpos = Len(raw_content)
       \/ At(raw_content, rawpos) \in {LT, "&"}
       \/ script_tag_stack # <<>>
    /\ clean_state' = "returned"
    /\ ret' = Ret("clean_html", <<>>, TRUE, <<>>, cleaned_content)
    /\ UNCHANGED <<task_vars, content_vars, cleaned_content, script_tag_stack, rawpos, event,
                   overlap_vars, check_vars>>

Positions == 0..Len(raw_content)

NextCleaner ==
    \/ Clean
    \/ \E gt \in Positions : HandleStarttag(gt)
    \/ \E gt \in Positions : HandleStartendtag(gt)
    \/ HandleEndtag
    \/ \E bogus \in BOOLEAN : HandleComment(bogus)
    \/ HandleDecl
    \/ \E n \in Positions : HandleData(n)
    \/ \E n \in Positions : HandleEntityref(n)
    \/ \E n \in Positions : HandleCharref(n)
    \/ CleanReturn

SpecCleaner == InitCleaner /\ [][NextCleaner]_vars

\* ------------------------------------------------ claims about clean_html
\* C5: whenever clean_html returns a buffer, the buffer is as long as the
\* input, and no handler changes the length of the list on the way.
C5_LengthPreserved ==
    /\ clean_state \in {"feeding", "returned", "raised"} =>
           Len(cleaned_content) = Len(raw_content)
    /\ (ret.op = "clean_html" /\ ret.ok) => Len(ret.text) = Len(raw_content)

\* C5 witness: clean_html returned after blanking a construct of a text with
\* an unbalanced tag (an opening tag that is never closed).
C5_Witness ==
    /\ ret.op = "clean_html" /\ ret.ok
    /\ ret.text # raw_content
    /\ event.kind = "starttag"
    /\ rawpos = Len(raw_content)

\* C6: at every position the cleaned buffer has '\n' exactly where the input
\* has it, while the cleaner runs and in what clean_html returns.
C6_NewlinesKept ==
    /\ clean_state \in {"feeding", "returned", "raised"} =>
           \A k \in 1..Min(Len(cleaned_content), Len(raw_content)) :
               (cleaned_content[k] = NL) <=> (raw_content[k] = NL)
    /\ (ret.op = "clean_html" /\ ret.ok) =>
           /\ Len(ret.text) = Len(raw_content)
           /\ \A k \in 1..Len(ret.text) : (ret.text[k] = NL) <=> (raw_content[k] = NL)

\* C6 witness: clean_html returned a buffer in which a blanked range spans a
\* newline that was kept.
C6_Witness ==
    /\ ret.op = "clean_html" /\ ret.ok
    /\ \E k \in 2..(Len(ret.text) - 1) :
           /\ ret.text[k] = NL
           /\ ret.text[k - 1] = SP /\ raw_content[k - 1] # SP
           /\ ret.text[k + 1] = SP /\ raw_content[k + 1] # SP

\* --------------------------------------------- _detect_overlap_annotations
MaxTriples == 3
MaxOffset == 3

\* A triple (start_offset, end_offset, annotation).
StartOf(triple) == triple[1]
EndOf(triple) == triple[2]
AnnotationOf(triple) == triple[3]

\* _is_overlapped: the value returned; AssertOverlapArgs are its two asserts.
\* Mutant of AssertOverlapArgs: the second assert is left out.
AssertOverlapArgsFirstOnly(start_offset_a, end_offset_a, start_offset_b, end_offset_b) ==
    start_offset_a < end_offset_a

AssertOverlapArgs(start_offset_a, end_offset_a, start_offset_b, end_offset_b) ==
    /\ start_offset_a < end_offset_a
    /\ start_offset_b < end_offset_b

\* Mutant of IsOverlapped: ranges that only touch count as overlapping.
IsOverlappedTouching(start_offset_a, end_offset_a, start_offset_b, end_offset_b) ==
    ~(end_offset_a < start_offset_b \/ end_offset_b < start_offset_a)

IsOverlapped(start_offset_a, end_offset_a, start_offset_b, end_offset_b) ==
    ~(end_offset_a <= start_offset_b \/ end_offset_b <= start_offset_a)

\* _DetectOverlapAnnotationsResult
DetectOverlapAnnotationsResult(annotation, overlapped_annotation) ==
    [annotation |-> annotation, overlapped_annotation |-> overlapped_annotation]

\* Mutant of BreakScan: the ends are compared.
BreakScanOnEnds(triple_a, triple_b) == EndOf(triple_a) <= EndOf(triple_b)

\* "if end_offset_a <= start_offset_b: break"
BreakScan(triple_a, triple_b) == EndOf(triple_a) <= StartOf(triple_b)

\* Mutant of InnerStart: the inner loop starts at i.
InnerStartAtI(i) == i

\* The first j of "for j in range(i + 1, len(...))".
InnerStart(i) == i + 1

\* The inner loop from j on, for the element at index i: acc holds what was
\* yielded so far and whether an assert failed.
RECURSIVE DetectInner(_, _, _, _)
DetectInner(triples, i, j, acc) ==
    IF j >= Len(triples)
    THEN acc
    ELSE LET a == triples[i + 1]
             b == triples[j + 1]
         IN IF BreakScan(a, b)
            THEN acc
            ELSE IF ~AssertOverlapArgs(StartOf(a), EndOf(a), StartOf(b), EndOf(b))
            THEN [acc EXCEPT !.raised = TRUE]
            ELSE DetectInner(triples, i, j + 1,
                     IF IsOverlapped(StartOf(a), EndOf(a), StartOf(b), EndOf(b))
                     THEN [acc EXCEPT !.yielded = Append(@,
                              DetectOverlapAnnotationsResult(AnnotationOf(a),
                                                             AnnotationOf(b)))]
                     ELSE acc)

\* The outer loop from i on.
RECURSIVE DetectOuter(_, _, _)
DetectOuter(triples, i, acc) ==
    IF i >= Len(triples) \/ acc.raised
    THEN acc
    ELSE DetectOuter(triples, i + 1, DetectInner(triples, i, InnerStart(i), acc))

\* _detect_overlap_annotations: everything it yields, and whether it ended
\* in an AssertionError.
DetectOverlapAnnotations(triples) ==
    DetectOuter(triples, 0, [yielded |-> <<>>, raised |-> FALSE])

\* The arguments tried: every tuple of up to MaxTriples triples, sorted or
\* not, each with its own annotation (named by its place in the tuple).
Spans == (0..MaxOffset) \X (0..MaxOffset)

TripleTuple(n, spans) == [k \in 1..n |-> <<spans[k][1], spans[k][2], k>>]

InitOverlap ==
    /\ built = "none"
    /\ raw_content = <<>>
    /\ line_offsets = <<>>
    /\ ret = NoRet
    /\ CleanerIdle
    /\ view = "none"
    /\ CheckIdle
    /\ TasksIdle
    /\ overlap_state = "idle"
    /\ \E n \in 0..MaxTriples :
           \E spans \in [1..n -> Spans] :
               sorted_indexed_annotations = TripleTuple(n, spans)
    /\ overlap_results = <<>>

\* list(_detect_overlap_annotations(sorted_indexed_annotations))
DetectOverlapAnnotationsCall ==
    /\ overlap_state = "idle"
    /\ LET got == DetectOverlapAnnotations(sorted_indexed_annotations)
       IN /\ overlap_results' = got.yielded
          /\ overlap_state' = IF got.raised THEN "raised" ELSE "returned"
    /\ UNCHANGED <<task_vars, content_vars, ret, cleaner_vars, sorted_indexed_annotations,
                   check_vars>>

NextOverlap == DetectOverlapAnnotationsCall

SpecOverlap == InitOverlap /\ [][NextOverlap]_vars

\* --------------------------------------------- claims about the detector
\* (start, end) of a before or equal to (start, end) of b, as tuples compare.
SpanLeq(a, b) ==
    \/ StartOf(a) < StartOf(b)
    \/ StartOf(a) = StartOf(b) /\ EndOf(a) <= EndOf(b)

SortedByStartEnd(triples) ==
    \A i, j \in 1..Len(triples) : i < j => SpanLeq(triples[i], triples[j])

ProperSpans(triples) ==
    \A k \in 1..Len(triples) : StartOf(triples[k]) < EndOf(triples[k])

\* The half-open ranges of a and b share a position.
RangesIntersect(a, b) ==
    \E x \in 0..MaxOffset :
        /\ StartOf(a) <= x /\ x < EndOf(a)
        /\ StartOf(b) <= x /\ x < EndOf(b)

Reported(annotation, overlapped_annotation) ==
    \E k \in 1..Len(overlap_results) :
        overlap_results[k] =
            DetectOverlapAnnotationsResult(annotation, overlapped_annotation)

\* C7: for a tuple sorted by (start, end) whose triples all have
\* start < end, the detector returns, and for a before b in the tuple it
\* reports (a, b) exactly when not (end_a <= start_b or end_b <= start_a),
\* which is when the two ranges share a position; adjacent ranges are not
\* reported.
C7_ReportsExactlyOverlaps ==
    (/\ overlap_state # "idle"
     /\ SortedByStartEnd(sorted_indexed_annotations)
     /\ ProperSpans(sorted_indexed_annotations)) =>
        /\ overlap_state = "returned"
        /\ \A i, j \in 1..Len(sorted_indexed_annotations) :
               i < j =>
                   LET a == sorted_indexed_annotations[i]
                       b == sorted_indexed_annotations[j]
                   IN /\ Reported(AnnotationOf(a), AnnotationOf(b)) <=>
                             ~(EndOf(a) <= StartOf(b) \/ EndOf(b) <= StartOf(a))
                      /\ Reported(AnnotationOf(a), AnnotationOf(b)) <=>
                             RangesIntersect(a, b)
                      /\ EndOf(a) = StartOf(b) =>
                             ~Reported(AnnotationOf(a), AnnotationOf(b))

\* C7 witness: three sorted triples: the scan of the first reports the
\* second and breaks at the third, which is adjacent to it, and the second
\* overlaps the third.
C7_Witness ==
    /\ overlap_state = "returned"
    /\ SortedByStartEnd(sorted_indexed_annotations)
    /\ ProperSpans(sorted_indexed_annotations)
    /\ Len(sorted_indexed_annotations) = 3
    /\ Reported(1, 2) /\ ~Reported(1, 3) /\ Reported(2, 3)
    /\ EndOf(sorted_indexed_annotations[1]) = StartOf(sorted_indexed_annotations[3])

\* The place of an annotation in the argument.
PlaceOf(annotation) ==
    CHOOSE k \in 1..Len(sorted_indexed_annotations) :
        AnnotationOf(sorted_indexed_annotations[k]) = annotation

\* C8: whatever the detector yields, no triple is paired with itself, no
\* unordered pair is yielded twice, and the first element of a pair precedes
\* the second in the argument; for a sorted argument the start of the first
\* is then <= the start of the second.
C8_PairsOrientedOnce ==
    overlap_state # "idle" =>
        /\ \A k \in 1..Len(overlap_results) :
               LET r == overlap_results[k]
               IN /\ r.annotation # r.overlapped_annotation
                  /\ PlaceOf(r.annotation) < PlaceOf(r.overlapped_annotation)
                  /\ SortedByStartEnd(sorted_indexed_annotations) =>
                         StartOf(sorted_indexed_annotations[PlaceOf(r.annotation)])
                             <= StartOf(sorted_indexed_annotations[
                                    PlaceOf(r.overlapped_annotation)])
        /\ \A k, m \in 1..Len(overlap_results) :
               k # m =>
                   {overlap_results[k].annotation,
                    overlap_results[k].overlapped_annotation}
                       # {overlap_results[m].annotation,
                          overlap_results[m].overlapped_annotation}

\* C8 witness: three mutually overlapping sorted triples, three pairs yielded.
C8_Witness ==
    /\ overlap_state = "returned"
    /\ SortedByStartEnd(sorted_indexed_annotations)
    /\ Len(overlap_results) = 3
    /\ \E k \in 1..3 :
           StartOf(sorted_indexed_annotations[PlaceOf(overlap_results[k].annotation)])
               < StartOf(sorted_indexed_annotations[
                     PlaceOf(overlap_results[k].overlapped_annotation)])

\* ------------------------------------------------ inspection/annotation.py
\* _HTML_BLOCK_TAGS, as the tuple literal reads: adjacent string literals
\* without a comma between them are one string.
HtmlBlockTags ==
    {<<"h", "t", "m", "l">>,
     <<"b", "o", "d", "y">>,
     <<"h", "e", "a", "d", "e", "r">>,
     <<"f", "o", "o", "t", "e", "r">>,
     <<"h", "1">>,
     <<"h", "2">>,
     <<"h", "3">>,
     <<"h", "4">>,
     <<"h", "5">>,
     <<"h", "6">>,
     <<"d", "l">>,
     <<"d", "d">>,
     <<"d", "t">>,
     <<"t", "a", "b", "l", "e">>,
     <<"c", "a", "p", "t", "i", "o", "n">>,
     <<"t", "h", "e", "a", "d", "t", "b", "o", "d", "y">>,
     <<"t", "f", "o", "o", "t">>,
     <<"t", "h", "t", "r">>,
     <<"t", "d">>,
     <<"i", "m", "g">>}

\* The last alternative of sorted(_HTML_BLOCK_TAGS): in _RE_HTML_BLOCK_TAGS
\* the trailing \s* belongs to it alone.
LastBlockTag == <<"t", "h", "t", "r">>

\* The first index >= k of t that holds no whitespace (\s*, greedy).
SkipWhitespace(t, k) ==
    LET solid == {m \in k..Len(t) : At(t, m) \notin Whitespace}
    IN CHOOSE m \in solid : \A x \in solid : m <= x

\* Where a match of _RE_HTML_BLOCK_TAGS, r'</?\s*(?:tag|...|last\s*)>',
\* that begins at index k of t ends (the index past its '>'), or -1.
BlockTagMatchEnd(t, k) ==
    IF At(t, k) # LT
    THEN 0 - 1
    ELSE LET name == SkipWhitespace(t, IF At(t, k + 1) = "/" THEN k + 2 ELSE k + 1)
             ends == {IF At(t, name + Len(tag)) = GT
                      THEN name + Len(tag) + 1
                      ELSE IF /\ tag = LastBlockTag
                              /\ At(t, SkipWhitespace(t, name + Len(tag))) = GT
                      THEN SkipWhitespace(t, name + Len(tag)) + 1
                      ELSE 0 - 1 :
                      tag \in {x \in HtmlBlockTags : StartsWith(t, x, name)}}
         IN IF ends \ {0 - 1} = {} THEN 0 - 1 ELSE CHOOSE e \in ends : e >= 0

\* Mutant of FindHtmlBlockTag: no text holds a block tag.
FindNoHtmlBlockTag(html_text) == <<>>

\* _find_html_block_tag: group(0) of the leftmost match in html_text.lower(),
\* or <<>> for None.
FindHtmlBlockTag(html_text) ==
    LET t == Lower(html_text)
        hits == {k \in 0..(Len(t) - 1) : BlockTagMatchEnd(t, k) >= 0}
    IN IF hits = {}
       THEN <<>>
       ELSE LET k == CHOOSE k \in hits : \A m \in hits : k <= m
            IN SubSeq(t, k + 1, BlockTagMatchEnd(t, k))

\* html.unescape on the references the pages of this model hold: a reference
\* is replaced by its character, with or without the closing ';'.
CharacterReferences ==
    <<<<<<"&", "l", "t", ";">>, LT>>, <<<<"&", "l", "t">>, LT>>,
      <<<<"&", "g", "t", ";">>, GT>>, <<<<"&", "g", "t">>, GT>>,
      <<<<"&", "a", "m", "p", ";">>, "&">>, <<<<"&", "a", "m", "p">>, "&">>,
      <<<<"&", "n", "b", "s", "p", ";">>, NBSP>>, <<<<"&", "n", "b", "s", "p">>, NBSP>>,
      <<<<"&", "#", "9", ";">>, TAB>>, <<<<"&", "#", "9">>, TAB>>,
      <<<<"&", "#", "3", "8", ";">>, "&">>, <<<<"&", "#", "3", "8">>, "&">>>>

RECURSIVE UnescapeFrom(_, _)
UnescapeFrom(t, k) ==
    IF k >= Len(t)
    THEN <<>>
    ELSE LET refs == {r \in 1..Len(CharacterReferences) :
                          StartsWith(t, CharacterReferences[r][1], k)}
         IN IF refs = {}
            THEN <<At(t, k)>> \o UnescapeFrom(t, k + 1)
            ELSE LET r == CHOOSE r \in refs : \A x \in refs : r <= x
                 IN <<CharacterReferences[r][2]>>
                        \o UnescapeFrom(t, k + Len(CharacterReferences[r][1]))

Unescape(t) == UnescapeFrom(t, 0)

\* _BRACE_PAIRS; the corner brackets are named, not written.
BracePairs ==
    <<<<"(", ")">>, <<"[", "]">>, <<"{", "}">>, <<LT, GT>>,
      <<"cornerL", "cornerR">>, <<"whitecornerL", "whitecornerR">>>>

\* _OPEN_BRACE_TO_CLOSE / _CLOSE_BRACE_TO_OPEN
OpenBraces == {BracePairs[k][1] : k \in 1..Len(BracePairs)}
CloseBraces == {BracePairs[k][2] : k \in 1..Len(BracePairs)}
\* Mutant of CloseBraceToOpen: the table is built the wrong way round and
\* maps a closer to itself.
CloseBraceToItself(ch) == ch

CloseBraceToOpen(ch) ==
    BracePairs[CHOOSE k \in 1..Len(BracePairs) : BracePairs[k][2] = ch][1]

\* unicodedata.normalize('NFKC', text) on the characters of this model: a
\* full-width form becomes its ASCII counterpart, a half-width corner bracket
\* the corner bracket.
CompatibilityForms ==
    <<<<"fullwidth(", "(">>, <<"fullwidth)", ")">>,
      <<"fullwidth[", "[">>, <<"fullwidth]", "]">>,
      <<"fullwidth{", "{">>, <<"fullwidth}", "}">>,
      <<"fullwidth<", LT>>, <<"fullwidth>", GT>>,
      <<"halfwidthcornerL", "cornerL">>, <<"halfwidthcornerR", "cornerR">>>>

\* Mutant of NormalizeChar: no normalization, each character stays itself.
NormalizeCharIdentity(c) == c

NormalizeChar(c) ==
    IF \E k \in 1..Len(CompatibilityForms) : CompatibilityForms[k][1] = c
    THEN CompatibilityForms[CHOOSE k \in 1..Len(CompatibilityForms) :
                                CompatibilityForms[k][1] = c][2]
    ELSE c

NormalizeNFKC(t) == [k \in 1..Len(t) |-> NormalizeChar(t[k])]

\* The loop of _braces_paired from index k on, with the stack so far.
RECURSIVE BracesPairedFrom(_, _, _)
BracesPairedFrom(t, k, braces_stack) ==
    IF k >= Len(t)
    THEN braces_stack = <<>>
    ELSE LET ch == At(t, k)
         IN IF ch \in OpenBraces
            THEN BracesPairedFrom(t, k + 1, Append(braces_stack, ch))
            ELSE IF ch \in CloseBraces
            THEN IF braces_stack = <<>>
                 THEN FALSE
                 ELSE IF CloseBraceToOpen(ch) # braces_stack[Len(braces_stack)]
                 THEN FALSE
                 ELSE BracesPairedFrom(t, k + 1,
                          SubSeq(braces_stack, 1, Len(braces_stack) - 1))
            ELSE BracesPairedFrom(t, k + 1, braces_stack)

\* _braces_paired
BracesPaired(t) == BracesPairedFrom(NormalizeNFKC(t), 0, <<>>)

\* ------------------------------------- _check_html_text, _check_text_text
MaxAnnotations == 2
MaxPos == 5

\* dataset.LineOffset as a pair (line_id, offset); <<>> is None.
LineOffset(line_id, offset) == <<line_id, offset>>
NoLineOffset == <<>>

\* dataset.Offset(start, end, text); has_text is "text is not None".
Offset(start, end, has_text, text) ==
    [some |-> TRUE, start |-> start, end |-> end,
     has_text |-> has_text, text |-> text]

\* None where an Offset is expected.
NoOffset ==
    [some |-> FALSE, start |-> NoLineOffset, end |-> NoLineOffset,
     has_text |-> FALSE, text |-> <<>>]

\* dataset.Annotation: the fields the checks read.
Annotation(annotation_id, attribute, html_offset, text_offset) ==
    [annotation_id |-> annotation_id, attribute |-> attribute,
     html_offset |-> html_offset, text_offset |-> text_offset]

\* _InspectResult; the annotation is named by its annotation_id and the
\* error_detail is the tuple of the values formatted into the message.
InspectResult(error_type, error_detail, annotation) ==
    [error_type |-> error_type, error_detail |-> error_detail,
     annotation_id |-> annotation.annotation_id]

\* annotation.html_offset or annotation.text_offset
OffsetIn(annotation, v) ==
    IF v = "html" THEN annotation.html_offset ELSE annotation.text_offset

\* content.get_text(offset.start.line_id, ...) and
\* content.get_char_offset(*offset.start) raise when start or end is None
\* (AttributeError, TypeError) or when a line_id is no index of the table
\* (IndexError).
OffsetRaises(table, offset) ==
    \/ offset.start = NoLineOffset
    \/ offset.end = NoLineOffset
    \/ ~InRange(table, offset.start[1])
    \/ ~InRange(table, offset.end[1])

\* content.get_text(offset.start.line_id, offset.start.offset,
\*                  offset.end.line_id, offset.end.offset)
GetTextAt(content, offset) ==
    GetText(content.raw_content, content.line_offsets,
            offset.start[1], offset.start[2], offset.end[1], offset.end[2])

\* Mutant of HtmlCleanTextChecks: the check for invisible text is left out.
HtmlCleanTextChecksNoInvisible(annotation, offset_text, clean_text) ==
    LET stripped_clean_text == Strip(clean_text)
        unescaped_text == Unescape(clean_text)
        stripped_unescaped_text == Strip(unescaped_text)
    IN IF stripped_clean_text # clean_text
       THEN <<InspectResult("HTML_LEADING_OR_TRAILING_SPACE", <<offset_text>>,
                            annotation)>>
       ELSE IF stripped_unescaped_text # unescaped_text
       THEN <<InspectResult("HTML_LEADING_OR_TRAILING_SPACE", <<offset_text>>,
                            annotation)>>
       ELSE IF ~BracesPaired(unescaped_text)
       THEN <<InspectResult("HTML_UNPAIRED_BRACES", <<offset_text>>, annotation)>>
       ELSE <<>>

\* _check_html_text, the checks on the text of the cleaned content: what
\* they yield for the annotation.
HtmlCleanTextChecks(annotation, offset_text, clean_text) ==
    LET stripped_clean_text == Strip(clean_text)
        unescaped_text == Unescape(clean_text)
        stripped_unescaped_text == Strip(unescaped_text)
    IN IF stripped_clean_text = <<>>
       THEN <<InspectResult("HTML_INVISIBLE_TEXT", <<offset_text>>, annotation)>>
       ELSE IF stripped_clean_text # clean_text
       THEN <<InspectResult("HTML_LEADING_OR_TRAILING_SPACE", <<offset_text>>,
                            annotation)>>
       ELSE IF stripped_unescaped_text # unescaped_text
       THEN <<InspectResult("HTML_LEADING_OR_TRAILING_SPACE", <<offset_text>>,
                            annotation)>>
       ELSE IF ~BracesPaired(unescaped_text)
       THEN <<InspectResult("HTML_UNPAIRED_BRACES", <<offset_text>>, annotation)>>
       ELSE <<>>

\* Mutant of HtmlTextChecks: the block tag is looked for before the
\* whitespace.
HtmlTextChecksBlockTagFirst(annotation, offset_text, text, clean_text) ==
    IF text # offset_text
    THEN <<InspectResult("HTML_OFFSET_MISMATCH", <<offset_text, text>>, annotation)>>
    ELSE IF FindHtmlBlockTag(text) # <<>>
    THEN <<InspectResult("HTML_WITH_BLOCK_TAG",
                         <<FindHtmlBlockTag(text), offset_text>>, annotation)>>
    ELSE IF Strip(offset_text) # text
    THEN <<InspectResult("HTML_LEADING_OR_TRAILING_SPACE", <<offset_text>>,
                         annotation)>>
    ELSE HtmlCleanTextChecks(annotation, offset_text, clean_text)

\* Mutant of HtmlTextChecks: no "continue" after the mismatch.
HtmlTextChecksFallingThrough(annotation, offset_text, text, clean_text) ==
    (IF text # offset_text
     THEN <<InspectResult("HTML_OFFSET_MISMATCH", <<offset_text, text>>, annotation)>>
     ELSE <<>>)
    \o (IF Strip(offset_text) # text
        THEN <<InspectResult("HTML_LEADING_OR_TRAILING_SPACE", <<offset_text>>,
                             annotation)>>
        ELSE IF FindHtmlBlockTag(text) # <<>>
        THEN <<InspectResult("HTML_WITH_BLOCK_TAG",
                             <<FindHtmlBlockTag(text), offset_text>>, annotation)>>
        ELSE HtmlCleanTextChecks(annotation, offset_text, clean_text))

\* _check_html_text, the body of "if offset is not None and offset.text is
\* not None": text is what content.get_text gave, clean_text what
\* clean_content.get_text gives.
HtmlTextChecks(annotation, offset_text, text, clean_text) ==
    IF text # offset_text
    THEN <<InspectResult("HTML_OFFSET_MISMATCH", <<offset_text, text>>, annotation)>>
    ELSE IF Strip(offset_text) # text
    THEN <<InspectResult("HTML_LEADING_OR_TRAILING_SPACE", <<offset_text>>,
                         annotation)>>
    ELSE IF FindHtmlBlockTag(text) # <<>>
    THEN <<InspectResult("HTML_WITH_BLOCK_TAG",
                         <<FindHtmlBlockTag(text), offset_text>>, annotation)>>
    ELSE HtmlCleanTextChecks(annotation, offset_text, clean_text)

\* _check_text_text, the body of "if offset is not None and offset.text is
\* not None".
TextTextChecks(annotation, offset_text, text) ==
    IF text # offset_text
    THEN <<InspectResult("TEXT_OFFSET_MISMATCH", <<offset_text, text>>, annotation)>>
    ELSE IF Strip(offset_text) # text
    THEN <<InspectResult("TEXT_LEADING_OR_TRAILING_SPACE", <<offset_text>>,
                         annotation)>>
    ELSE IF ~BracesPaired(offset_text)
    THEN <<InspectResult("TEXT_UNPAIRED_BRACES", <<offset_text>>, annotation)>>
    ELSE <<>>

\* One pass of the loop "for annotation in annotations" of _check_html_text:
\* what it yields and whether it raised.
CheckHtmlAnnotation(content, clean, annotation) ==
    LET offset == annotation.html_offset
    IN IF ~(offset.some /\ offset.has_text)
       THEN [yielded |-> <<>>, raised |-> FALSE]
       ELSE IF OffsetRaises(content.line_offsets, offset)
       THEN [yielded |-> <<>>, raised |-> TRUE]
       ELSE [yielded |-> HtmlTextChecks(annotation, offset.text,
                                        GetTextAt(content, offset),
                                        GetTextAt(clean, offset)),
             raised |-> FALSE]

\* One pass of the loop of _check_text_text.
CheckTextAnnotation(content, annotation) ==
    LET offset == annotation.text_offset
    IN IF ~(offset.some /\ offset.has_text)
       THEN [yielded |-> <<>>, raised |-> FALSE]
       ELSE IF OffsetRaises(content.line_offsets, offset)
       THEN [yielded |-> <<>>, raised |-> TRUE]
       ELSE [yielded |-> TextTextChecks(annotation, offset.text,
                                        GetTextAt(content, offset)),
             raised |-> FALSE]

\* annotations_by_attribute[annotation.attribute].append(annotation): the
\* dict as the sequence of its items, in the order the keys were inserted.
\* Mutant of GroupAppend: every annotation goes to the group of the first.
GroupAppendOneGroup(groups, annotation) ==
    IF groups # <<>>
    THEN <<[groups[1] EXCEPT !.grouped_annotations = Append(@, annotation)]>>
    ELSE <<[attribute |-> annotation.attribute,
            grouped_annotations |-> <<annotation>>]>>

GroupAppend(groups, annotation) ==
    IF \E g \in 1..Len(groups) : groups[g].attribute = annotation.attribute
    THEN [g \in 1..Len(groups) |->
             IF groups[g].attribute = annotation.attribute
             THEN [groups[g] EXCEPT !.grouped_annotations = Append(@, annotation)]
             ELSE groups[g]]
    ELSE Append(groups, [attribute |-> annotation.attribute,
                         grouped_annotations |-> <<annotation>>])

\* The order of the tuples (start, end, annotation): annotations compare by
\* their first field, the annotation_id.
TripleLess(a, b) ==
    \/ a[1] < b[1]
    \/ a[1] = b[1] /\ a[2] < b[2]
    \/ a[1] = b[1] /\ a[2] = b[2] /\ a[3] < b[3]

\* sorted(...) of a set of pairwise different triples.
RECURSIVE SortedTriples(_)
SortedTriples(triples) ==
    IF triples = {}
    THEN <<>>
    ELSE LET least == CHOOSE a \in triples :
                          \A b \in triples \ {a} : TripleLess(a, b)
         IN <<least>> \o SortedTriples(triples \ {least})

\* tuple(sorted((content.get_char_offset(*offset.start),
\*               content.get_char_offset(*offset.end), annotation) ...)),
\* the annotation named by its annotation_id.
IndexedAnnotations(table, grouped_annotations, v) ==
    SortedTriples(
        {<<GetCharOffset(table, OffsetIn(grouped_annotations[k], v).start[1],
                                OffsetIn(grouped_annotations[k], v).start[2]),
           GetCharOffset(table, OffsetIn(grouped_annotations[k], v).end[1],
                                OffsetIn(grouped_annotations[k], v).end[2]),
           grouped_annotations[k].annotation_id>> :
            k \in 1..Len(grouped_annotations)})

\* Building the triples of a group raises when an annotation has no offset
\* for the view (AttributeError) or OffsetRaises.
IndexedAnnotationsRaises(table, grouped_annotations, v) ==
    \E k \in 1..Len(grouped_annotations) :
        \/ ~OffsetIn(grouped_annotations[k], v).some
        \/ OffsetRaises(table, OffsetIn(grouped_annotations[k], v))

\* The records of one group: one per result of the detector.
OverlapRecords(error_type, attribute, detected) ==
    [r \in 1..Len(detected) |->
        [error_type |-> error_type,
         error_detail |-> <<attribute, detected[r].annotation,
                            detected[r].overlapped_annotation>>,
         annotation_id |-> detected[r].annotation]]

\* The loop "for (attribute, grouped_annotations) in
\* annotations_by_attribute.items()" from group g on: acc holds what was
\* yielded so far and whether a group raised.
RECURSIVE CheckOverlaps(_, _, _, _, _, _)
CheckOverlaps(table, groups, v, error_type, g, acc) ==
    IF g > Len(groups) \/ acc.raised
    THEN acc
    ELSE IF IndexedAnnotationsRaises(table, groups[g].grouped_annotations, v)
    THEN [acc EXCEPT !.raised = TRUE]
    ELSE LET detected == DetectOverlapAnnotations(
                             IndexedAnnotations(table,
                                                groups[g].grouped_annotations, v))
         IN CheckOverlaps(table, groups, v, error_type, g + 1,
                [yielded |-> acc.yielded
                                \o OverlapRecords(error_type, groups[g].attribute,
                                                  detected.yielded),
                 raised |-> detected.raised])

\* The pages checked in the markup view, one per construct of the cleaner
\* and per check.
PageBlockTag == <<"a", LT, "t", "d", GT>>
PageSpaceBlockTag == <<SP, LT, "t", "d", GT>>
PageHeaderCell == <<LT, "t", "h", GT, "a">>
PageInlineTag == <<LT, "b", GT, "(">>
PageCharref == <<"&", "#", "9", ";">>
PageEntityref == <<"&", "l", "t", ";">>
PageEndTag == <<"a", LT, "/", "b", GT>>
PageStartEndTag == <<LT, "b", "r", "/", GT, "a">>
PageComment == <<LT, "!", "-", "-", "-", "-", GT, "a">>
PageDoctype == <<LT, "!", "D", "O", "C", "T", "Y", "P", "E", GT, "a">>
PageTagOverLines == <<LT, "b", NL, GT, "a">>

HtmlPages ==
    {PageBlockTag, PageSpaceBlockTag, PageHeaderCell, PageInlineTag, PageCharref, PageEntityref, PageEndTag,
     PageStartEndTag, PageComment, PageDoctype, PageTagOverLines}

\* The pages checked in the plain text view.
PageTwoLines == <<SP, "(", "a", NL, ")">>

TextPages == {PageTwoLines, PageSpaceBlockTag}

\* The content the check was called with.
CheckedContent == [raw_content |-> raw_content, line_offsets |-> line_offsets]

\* The offsets an annotation of the page may carry: None, an Offset without
\* start and end, one whose line_id is no line of the page, and every span
\* between two of the first positions of the page (an empty or inverted one
\* included), without text, with the text found there or with another text.
CandidateOffsets(content) ==
    LET last == Min(Len(content.raw_content), MaxPos)
        at(k) == GetLineOffset(content.line_offsets, k)
        no_line == LineOffset(Len(content.line_offsets), 0)
        spans == {se \in (0..last) \X (0..last) : se[2] >= se[1] - 1}
    IN {NoOffset,
        Offset(NoLineOffset, NoLineOffset, TRUE, <<"x">>),
        Offset(no_line, no_line, TRUE, <<"x">>)}
       \cup {Offset(at(se[1]), at(se[2]), FALSE, <<>>) : se \in spans}
       \cup {Offset(at(se[1]), at(se[2]), TRUE,
                    Slice(content.raw_content, se[1], se[2])) : se \in spans}
       \cup {Offset(at(se[1]), at(se[2]), TRUE, <<"x">>) : se \in spans}

Attributes == {"p", "q"}

\* A page is given to _check_html_text or to _check_text_text.
InitCheck ==
    /\ \E v \in {"html", "text"} :
           /\ view = v
           /\ \E raw \in IF v = "html" THEN HtmlPages ELSE TextPages :
                  /\ raw_content = raw
                  /\ line_offsets = GenLineOffsets(raw)
    /\ built = "ok"
    /\ ret = NoRet
    /\ CleanerIdle
    /\ OverlapIdle
    /\ CheckIdle
    /\ TasksIdle

\* clean_content = clean_html_content(content), once clean_html returned or
\* raised: Content(...) of the text returned.  The cleaner is dropped.
CleanHtmlContent ==
    /\ view = "html" /\ check_state = "idle"
    /\ clean_state \in {"returned", "raised"}
    /\ IF clean_state = "raised"
       THEN /\ check_state' = "raised"
            /\ clean_content' = clean_content
       ELSE /\ check_state' = "checking"
            /\ clean_content' = ContentOf(ret.text)
    /\ clean_state' = "dropped"
    /\ cleaned_content' = <<>>
    /\ script_tag_stack' = <<>>
    /\ rawpos' = 0
    /\ event' = NoEvent
    /\ ret' = NoRet
    /\ UNCHANGED <<task_vars, content_vars, overlap_vars, view, annotations, ann_index,
                   annotations_by_attribute, results>>

\* One pass of "for annotation in annotations" of _check_html_text: the next
\* annotation of the tuple has one of the attributes and one of the offsets,
\* and its place in the tuple for annotation_id.
CheckHtmlTextAnnotation ==
    /\ view = "html" /\ check_state = "checking"
    /\ ann_index < MaxAnnotations
    /\ \E attribute \in Attributes, offset \in CandidateOffsets(CheckedContent) :
           LET annotation == Annotation(ann_index, attribute, offset, NoOffset)
               got == CheckHtmlAnnotation(CheckedContent, clean_content, annotation)
           IN /\ annotations' = Append(annotations, annotation)
              /\ annotations_by_attribute' =
                     GroupAppend(annotations_by_attribute, annotation)
              /\ results' = results \o got.yielded
              /\ ann_index' = IF got.raised THEN ann_index ELSE ann_index + 1
              /\ check_state' = IF got.raised THEN "raised" ELSE "checking"
    /\ UNCHANGED <<task_vars, content_vars, ret, cleaner_vars, overlap_vars, view,
                   clean_content>>

\* The loop over annotations_by_attribute.items() of _check_html_text, after
\* the last annotation.
CheckHtmlTextOverlaps ==
    /\ view = "html" /\ check_state = "checking"
    /\ ann_index >= 1
    /\ LET got == CheckOverlaps(line_offsets, annotations_by_attribute, "html",
                                "HTML_OVERLAPPED_ANNOTATIONS", 1,
                                [yielded |-> <<>>, raised |-> FALSE])
       IN /\ results' = results \o got.yielded
          /\ check_state' = IF got.raised THEN "raised" ELSE "returned"
    /\ UNCHANGED <<task_vars, content_vars, ret, cleaner_vars, overlap_vars, view,
                   clean_content, annotations, ann_index,
                   annotations_by_attribute>>

\* _check_text_text is entered: it cleans nothing.
CheckTextText ==
    /\ view = "text" /\ check_state = "idle"
    /\ check_state' = "checking"
    /\ UNCHANGED <<task_vars, content_vars, ret, cleaner_vars, overlap_vars, view,
                   clean_content, annotations, ann_index,
                   annotations_by_attribute, results>>

\* One pass of "for annotation in annotations" of _check_text_text.
CheckTextTextAnnotation ==
    /\ view = "text" /\ check_state = "checking"
    /\ ann_index < MaxAnnotations
    /\ \E attribute \in Attributes, offset \in CandidateOffsets(CheckedContent) :
           LET annotation == Annotation(ann_index, attribute, NoOffset, offset)
               got == CheckTextAnnotation(CheckedContent, annotation)
           IN /\ annotations' = Append(annotations, annotation)
              /\ annotations_by_attribute' =
                     GroupAppend(annotations_by_attribute, annotation)
              /\ results' = results \o got.yielded
              /\ ann_index' = IF got.raised THEN ann_index ELSE ann_index + 1
              /\ check_state' = IF got.raised THEN "raised" ELSE "checking"
    /\ UNCHANGED <<task_vars, content_vars, ret, cleaner_vars, overlap_vars, view,
                   clean_content>>

\* The loop over annotations_by_attribute.items() of _check_text_text.
CheckTextTextOverlaps ==
    /\ view = "text" /\ check_state = "checking"
    /\ ann_index >= 1
    /\ LET got == CheckOverlaps(line_offsets, annotations_by_attribute, "text",
                                "TEXT_OVERLAPPED_ANNOTATIONS", 1,
                                [yielded |-> <<>>, raised |-> FALSE])
       IN /\ results' = results \o got.yielded
          /\ check_state' = IF got.raised THEN "raised" ELSE "returned"
    /\ UNCHANGED <<task_vars, content_vars, ret, cleaner_vars, overlap_vars, view,
                   clean_content, annotations, ann_index,
                   annotations_by_attribute>>

\* _check_html_text runs the cleaner first; _check_text_text has none.
NextCheck ==
    \/ view = "html" /\ check_state = "idle" /\ NextCleaner
    \/ CleanHtmlContent
    \/ CheckHtmlTextAnnotation
    \/ CheckHtmlTextOverlaps
    \/ CheckTextText
    \/ CheckTextTextAnnotation
    \/ CheckTextTextOverlaps

SpecCheck == InitCheck /\ [][NextCheck]_vars

\* ------------------------------- claims about the per-annotation checks
\* The annotations the loop has finished with, by their place in the tuple.
Checked == 1..ann_index

OverlapErrorTypes == {"HTML_OVERLAPPED_ANNOTATIONS", "TEXT_OVERLAPPED_ANNOTATIONS"}

\* The kinds of the records the loop yielded for an annotation, in the order
\* yielded: the records of results that name it, those of the overlap stage
\* left out.
KindsYieldedFor(annotation) ==
    LET Names(r) == /\ r.annotation_id = annotation.annotation_id
                    /\ r.error_type \notin OverlapErrorTypes
        records == SelectSeq(results, Names)
    IN [r \in 1..Len(records) |-> records[r].error_type]

HasExpectedText(annotation) ==
    OffsetIn(annotation, view).some /\ OffsetIn(annotation, view).has_text

\* The checks of the list, numbered 1 to 7, that fail for an annotation in
\* the view checked, each taken alone; 3 to 6 exist in the markup view only.
FailingChecks(annotation) ==
    LET offset == OffsetIn(annotation, view)
        text == GetTextAt(CheckedContent, offset)
        clean_text == GetTextAt(clean_content, offset)
        decoded == Unescape(clean_text)
    IN {n \in 1..7 :
           \/ n = 1 /\ text # offset.text
           \/ n = 2 /\ Strip(offset.text) # offset.text
           \/ n = 3 /\ view = "html" /\ FindHtmlBlockTag(text) # <<>>
           \/ n = 4 /\ view = "html" /\ Strip(clean_text) = <<>>
           \/ n = 5 /\ view = "html" /\ Strip(clean_text) # clean_text
           \/ n = 6 /\ view = "html" /\ Strip(decoded) # decoded
           \/ n = 7 /\ IF view = "html"
                       THEN ~BracesPaired(decoded)
                       ELSE ~BracesPaired(offset.text)}

\* The kind of record of each check of the list, per view.
KindOfCheck(n) ==
    IF view = "html"
    THEN <<"HTML_OFFSET_MISMATCH", "HTML_LEADING_OR_TRAILING_SPACE",
           "HTML_WITH_BLOCK_TAG", "HTML_INVISIBLE_TEXT",
           "HTML_LEADING_OR_TRAILING_SPACE", "HTML_LEADING_OR_TRAILING_SPACE",
           "HTML_UNPAIRED_BRACES">>[n]
    ELSE <<"TEXT_OFFSET_MISMATCH", "TEXT_LEADING_OR_TRAILING_SPACE",
           "", "", "", "", "TEXT_UNPAIRED_BRACES">>[n]

\* C9: for every annotation with expected text the loop has finished with,
\* in either view, the loop yielded no record when no check of the list
\* fails, and otherwise exactly one record, of the kind of the lowest
\* numbered check that fails.
C9_FirstFailingCheckOnly ==
    check_state \in {"checking", "returned", "raised"} =>
        \A k \in Checked :
            HasExpectedText(annotations[k]) =>
                LET failing == FailingChecks(annotations[k])
                IN KindsYieldedFor(annotations[k]) =
                       IF failing = {}
                       THEN <<>>
                       ELSE <<KindOfCheck(CHOOSE n \in failing :
                                              \A m \in failing : n <= m)>>

\* C9 witness: the markup check returned for two annotations with expected
\* text: for one the block tag check and the check of whitespace after
\* stripping both fail and the only record is the block tag one, for the
\* other no check fails and there is no record.
C9_Witness ==
    /\ view = "html" /\ check_state = "returned"
    /\ \E k \in Checked, m \in Checked :
           /\ HasExpectedText(annotations[k]) /\ HasExpectedText(annotations[m])
           /\ {3, 5} \subseteq FailingChecks(annotations[k])
           /\ FailingChecks(annotations[k]) \cap {1, 2} = {}
           /\ KindsYieldedFor(annotations[k]) = <<"HTML_WITH_BLOCK_TAG">>
           /\ FailingChecks(annotations[m]) = {}
           /\ KindsYieldedFor(annotations[m]) = <<>>

MaxBraces == 4

\* The characters of the texts tried: the twelve delimiters, a letter and
\* the full-width forms of the parentheses.
BraceAlphabet == OpenBraces \cup CloseBraces \cup {"a", "fullwidth(", "fullwidth)"}

\* _braces_paired(text), called once with one of the texts.
BracesPairedCall ==
    /\ ret = NoRet
    /\ \E n \in 0..MaxBraces : \E text \in [1..n -> BraceAlphabet] :
           ret' = Ret("_braces_paired", <<text>>, TRUE, <<BracesPaired(text)>>, <<>>)
    /\ UNCHANGED <<task_vars, content_vars, cleaner_vars, overlap_vars, check_vars>>

NextBraces == BracesPairedCall

SpecBraces == Init /\ [][NextBraces]_vars

\* The delimiters of a text, in order, every other character left out.
DelimitersOf(t) ==
    LET IsDelimiter(ch) == ch \in OpenBraces \cup CloseBraces
    IN SelectSeq(t, IsDelimiter)

\* An opener and the closer of the same pair.
MatchingPair(open, close) ==
    \E k \in 1..Len(BracePairs) : BracePairs[k] = <<open, close>>

\* A sequence of delimiters is properly nested when deleting an adjacent
\* matching pair again and again leaves nothing.
RECURSIVE ProperlyNested(_)
ProperlyNested(d) ==
    IF d = <<>>
    THEN TRUE
    ELSE LET adjacent == {k \in 1..(Len(d) - 1) : MatchingPair(d[k], d[k + 1])}
         IN IF adjacent = {}
            THEN FALSE
            ELSE LET k == CHOOSE k \in adjacent : TRUE
                 IN ProperlyNested(SubSeq(d, 1, k - 1) \o SubSeq(d, k + 2, Len(d)))

\* C11: _braces_paired(text) is true exactly when the delimiters of the
\* normalized text, all other characters ignored, are properly nested over
\* the six pairs.
C11_BracesPairedIffNested ==
    ret.op = "_braces_paired" =>
        (ret.val[1] <=> ProperlyNested(DelimitersOf(NormalizeNFKC(ret.args[1]))))

\* C11 witness: _braces_paired returned false for a text whose closer does
\* not match the opener on top of the stack.
C11_Witness ==
    /\ ret.op = "_braces_paired"
    /\ ret.args[1] = <<"(", "[", ")", "]">>
    /\ ret.val = <<FALSE>>

\* ------------------------------- get_text, get_text_by_char_offset, called
\* content.get_text(start_line_id, start_offset, end_line_id, end_offset) on
\* a Content built from one of the texts; a line_id that is no index of the
\* table raises IndexError.
GetTextCall ==
    /\ built = "ok" /\ ret = NoRet
    /\ \E start_line_id \in 0..MaxLen, start_offset \in 0..MaxLen,
          end_line_id \in 0..MaxLen, end_offset \in 0..MaxLen :
           LET args == <<start_line_id, start_offset, end_line_id, end_offset>>
           IN ret' = IF InRange(line_offsets, start_line_id)
                        /\ InRange(line_offsets, end_line_id)
                     THEN Ret("get_text", args, TRUE, <<>>,
                              GetText(raw_content, line_offsets, start_line_id,
                                      start_offset, end_line_id, end_offset))
                     ELSE Ret("get_text", args, FALSE, <<>>, <<>>)
    /\ UNCHANGED <<task_vars, content_vars, cleaner_vars, overlap_vars, check_vars>>

\* content.get_text_by_char_offset(start_char_offset, end_char_offset)
GetTextByCharOffsetCall ==
    /\ built = "ok" /\ ret = NoRet
    /\ \E start_char_offset \in Args, end_char_offset \in Args :
           ret' = Ret("get_text_by_char_offset",
                      <<start_char_offset, end_char_offset>>, TRUE, <<>>,
                      GetTextByCharOffset(raw_content, start_char_offset,
                                          end_char_offset))
    /\ UNCHANGED <<task_vars, content_vars, cleaner_vars, overlap_vars, check_vars>>

NextGetText ==
    \/ GetTextCall
    \/ GetTextByCharOffsetCall

SpecGetText == InitCleaner /\ [][NextGetText]_vars

\* C12: when get_text returned for coordinates whose absolute offsets s and
\* e (by get_char_offset) satisfy 0 <= s <= e <= len(text), what it returned
\* has e - s characters, the k-th of them being the character of the text at
\* absolute position s + k, and is what get_text_by_char_offset(s, e)
\* returns.
C12_GetTextIsHalfOpenRange ==
    (ret.op = "get_text" /\ ret.ok) =>
        LET s == GetCharOffset(line_offsets, ret.args[1], ret.args[2])
            e == GetCharOffset(line_offsets, ret.args[3], ret.args[4])
        IN (0 <= s /\ s <= e /\ e <= Len(raw_content)) =>
               /\ Len(ret.text) = e - s
               /\ \A k \in 0..(e - s - 1) : ret.text[k + 1] = raw_content[s + k + 1]
               /\ ret.text = GetTextByCharOffset(raw_content, s, e)

\* C12 witness: get_text returned two or more characters for a start and an
\* end on different lines.
C12_Witness ==
    /\ ret.op = "get_text" /\ ret.ok
    /\ ret.args[1] < ret.args[3]
    /\ GetCharOffset(line_offsets, ret.args[3], ret.args[4]) <= Len(raw_content)
    /\ Len(ret.text) >= 2
    /\ \E k \in 1..Len(ret.text) : ret.text[k] = NL

\* -------------------------------------------- claims about Content(...)
\* C13: the constructor fails exactly when its argument is the empty text;
\* given any other text it returns a Content of that text.
C13_FailsIffEmpty ==
    ret.op = "Content" =>
        /\ built = "failed" <=> ret.args[1] = <<>>
        /\ built = "ok" <=> Len(ret.args[1]) >= 1
        /\ built = "ok" => raw_content = ret.args[1]

\* C13 witness: the constructor was given the empty text and failed.
C13_Witness ==
    /\ ret.op = "Content"
    /\ ret.args[1] = <<>>
    /\ built = "failed"

\* ------------------------------------- claims about the block tag check
\* The block tags as the list of the source names them, one name each.
ListedBlockTags ==
    {<<"h", "t", "m", "l">>, <<"b", "o", "d", "y">>,
     <<"h", "e", "a", "d", "e", "r">>, <<"f", "o", "o", "t", "e", "r">>,
     <<"h", "1">>, <<"h", "2">>, <<"h", "3">>, <<"h", "4">>, <<"h", "5">>,
     <<"h", "6">>, <<"d", "l">>, <<"d", "d">>, <<"d", "t">>,
     <<"t", "a", "b", "l", "e">>, <<"c", "a", "p", "t", "i", "o", "n">>,
     <<"t", "h", "e", "a", "d">>, <<"t", "b", "o", "d", "y">>,
     <<"t", "f", "o", "o", "t">>, <<"t", "h">>, <<"t", "r">>, <<"t", "d">>,
     <<"i", "m", "g">>}

\* The text holds an opening or closing tag of a listed name, in any letter
\* case: '<', an optional '/', the name, then '>' or whitespace and the rest
\* of the tag up to a '>'.
ContainsListedBlockTag(text) ==
    LET t == Lower(text)
    IN \E k \in 0..(Len(t) - 1), name \in ListedBlockTags :
           LET from == IF At(t, k + 1) = "/" THEN k + 2 ELSE k + 1
               after == from + Len(name)
           IN /\ At(t, k) = LT
              /\ StartsWith(t, name, from)
              /\ \/ At(t, after) = GT
                 \/ At(t, after) \in Whitespace /\ Find(t, <<GT>>, after) >= 0

\* C14 as claimed: in the markup view, an annotation whose offset and
\* whitespace checks pass and whose extracted text holds a tag of the list
\* gets the HTML_WITH_BLOCK_TAG record, and one whose extracted text holds no
\* tag of the list does not.
C14_ListedBlockTagYields ==
    (view = "html" /\ check_state \in {"checking", "returned", "raised"}) =>
        \A k \in Checked :
            (HasExpectedText(annotations[k])
                 /\ FailingChecks(annotations[k]) \cap {1, 2} = {}) =>
                LET text == GetTextAt(CheckedContent, annotations[k].html_offset)
                IN ContainsListedBlockTag(text) <=>
                       KindsYieldedFor(annotations[k]) = <<"HTML_WITH_BLOCK_TAG">>

\* ------------------------------- claims about the order of the triples
\* C15 as claimed: for triples with start < end in any order, sorted or
\* not, the detector reports every pair whose ranges share a position.
C15_EveryOrderReportsAll ==
    (overlap_state = "returned" /\ ProperSpans(sorted_indexed_annotations)) =>
        \A i, j \in 1..Len(sorted_indexed_annotations) :
            LET a == sorted_indexed_annotations[i]
                b == sorted_indexed_annotations[j]
            IN (i < j /\ RangesIntersect(a, b)) =>
                   \/ Reported(AnnotationOf(a), AnnotationOf(b))
                   \/ Reported(AnnotationOf(b), AnnotationOf(a))

\* C15 amended: for triples with start < end in any order the detector
\* returns and every pair it reports shares a position; it reports every
\* such pair when the triples are sorted by (start, end).
C15_SoundAlwaysCompleteWhenSorted ==
    (overlap_state # "idle" /\ ProperSpans(sorted_indexed_annotations)) =>
        /\ overlap_state = "returned"
        /\ \A i, j \in 1..Len(sorted_indexed_annotations) :
               LET a == sorted_indexed_annotations[i]
                   b == sorted_indexed_annotations[j]
               IN /\ Reported(AnnotationOf(a), AnnotationOf(b)) =>
                         i < j /\ RangesIntersect(a, b)
                  /\ (/\ SortedByStartEnd(sorted_indexed_annotations)
                      /\ i < j /\ RangesIntersect(a, b)) =>
                         Reported(AnnotationOf(a), AnnotationOf(b))

\* C15 witness: the detector returned for three unsorted triples: it
\* reported one pair that shares a position and missed another, the scan of
\* the first triple having stopped at the second.
C15_Witness ==
    /\ overlap_state = "returned"
    /\ ProperSpans(sorted_indexed_annotations)
    /\ ~SortedByStartEnd(sorted_indexed_annotations)
    /\ Len(sorted_indexed_annotations) = 3
    /\ RangesIntersect(sorted_indexed_annotations[1], sorted_indexed_annotations[3])
    /\ ~Reported(1, 3) /\ ~Reported(3, 1)
    /\ Reported(2, 3)

\* ------------------------------- claims about the cleaned Content
\* C16: when clean_html_content returned, the cleaned Content has the
\* line-start table of the checked Content, so get_char_offset gives the
\* same absolute offset and get_line_offset the same pair in both.
C16_CleanContentSameTable ==
    clean_content # NoContent =>
        /\ Len(clean_content.raw_content) = Len(raw_content)
        /\ clean_content.line_offsets = line_offsets
        /\ \A line_id \in 0..(Len(line_offsets) - 1), column \in 0..MaxPos :
               GetCharOffset(clean_content.line_offsets, line_id, column)
                   = GetCharOffset(line_offsets, line_id, column)
        /\ \A o \in 0..Len(raw_content) :
               GetLineOffset(clean_content.line_offsets, o)
                   = GetLineOffset(line_offsets, o)

\* C16 witness: the cleaned Content of a page whose tag runs over a line
\* break: the tag is blanked, the line break kept and the table has the two
\* lines of the page.
C16_Witness ==
    /\ raw_content = PageTagOverLines
    /\ clean_content # NoContent
    /\ clean_content.raw_content = <<SP, SP, NL, SP, "a">>
    /\ clean_content.line_offsets = <<0, 3, 6>>

\* ------------------------------- claims about references in clean_html
\* C17: after an entity-reference or character-reference event, and in what
\* clean_html then returns, the characters of the reference in the buffer
\* are those of the input.
C17_ReferenceLeftUntouched ==
    (clean_state \in {"feeding", "returned"} /\ event.kind \in {"entityref", "charref"}) =>
        \A k \in (event.start + 1)..event.end : cleaned_content[k] = raw_content[k]

\* ------------------------------- claims about absent spans and texts
\* The annotation has no span for the view, or has a span of at least one
\* character on lines of the page and no expected text.
AbsentForView(annotation) ==
    LET offset == OffsetIn(annotation, view)
    IN \/ ~offset.some
       \/ /\ ~offset.has_text
          /\ ~OffsetRaises(line_offsets, offset)
          /\ GetCharOffset(line_offsets, offset.start[1], offset.start[2])
                 < GetCharOffset(line_offsets, offset.end[1], offset.end[2])

\* C18: a check whose annotations all lack the span or the expected text
\* for the view yields no per-annotation record and does not abort, in the
\* loop over the annotations or in the overlap stage.
C18_AbsentNeverAborts ==
    (/\ view # "none"
     /\ Len(annotations) >= 1
     /\ \A k \in 1..Len(annotations) : AbsentForView(annotations[k])) =>
        /\ check_state # "raised"
        /\ \A r \in 1..Len(results) :
               results[r].error_type \in OverlapErrorTypes

C20_CleanerNeverAborts ==
    /\ clean_state # "raised"
    /\ ret.op = "clean_html" => ret.ok

\* ------------------------------- claims about what clean_html changes
\* C21: an event the cleaner handled changed no position outside the
\* construct the tokenizer reported: every position before the construct's
\* start or after its closing '>' holds what it held before the event, for
\* comment and declaration events as for the others.
C21_OnlyConstructChanged ==
    (clean_state \in {"feeding", "returned"} /\ event.kind # "none") =>
        \A k \in 1..Len(cleaned_content) :
            (k <= event.start \/ k > event.end) => cleaned_content[k] = event.before[k]

\* ------------------------------- claims about tag events
TagEvents == {"starttag", "startendtag", "endtag"}

\* C22: after a start tag, end tag or self-closing tag event the positions
\* from the tag's start through the first '>' at or after it in the
\* original text are blanked (a '\n' among them kept), and every other
\* position holds what it held before the event: what follows that first
\* '>' inside the tag is left as it was.
C22_TagBlankedThroughFirstGt ==
    (clean_state \in {"feeding", "returned"} /\ event.kind \in TagEvents) =>
        LET index == Find(raw_content, <<GT>>, event.start)
        IN \A k \in 1..Len(cleaned_content) :
               IF event.start < k /\ k <= index + 1
               THEN cleaned_content[k] = (IF raw_content[k] = NL THEN NL ELSE SP)
               ELSE cleaned_content[k] = event.before[k]

\* C22 witness: the start tag of DocQuotedGt, whose attribute value holds a
\* '>', was handled: the tag is blanked through that '>' and the quote and
\* the '>' that end the tag are still in the buffer.
C22_Witness ==
    /\ raw_content = DocQuotedGt
    /\ clean_state = "feeding"
    /\ event.kind = "starttag" /\ event.start = 0 /\ event.end = 9
    /\ cleaned_content = <<SP, SP, SP, SP, SP, SP, SP, "'", GT, "c">>

\* ------------------------------- claims about the script stack
\* The event just handled is a start tag (an end tag) named script.
ScriptStartEvent ==
    event.kind = "starttag" /\ IsScriptTag(TagName(raw_content, event.start + 1))

ScriptEndEvent ==
    event.kind = "endtag" /\ IsScriptTag(TagName(raw_content, event.start + 2))

\* C23: every event leaves the script stack one deeper when it is a start
\* tag named script, one shallower when it is an end tag named script, and
\* as deep as it was otherwise; a data event blanks all of its text when
\* the stack was not empty and changes nothing when it was.
C23_ScriptStackFollowsEvents ==
    (clean_state \in {"feeding", "returned", "raised"} /\ event.kind # "none") =>
        /\ Len(script_tag_stack) =
               IF ScriptStartEvent THEN event.depth + 1
               ELSE IF ScriptEndEvent THEN event.depth - 1
               ELSE event.depth
        /\ event.kind = "data" =>
               \A k \in 1..Len(cleaned_content) :
                   IF event.depth > 0 /\ event.start < k /\ k <= event.end
                   THEN cleaned_content[k] = (IF raw_content[k] = NL THEN NL ELSE SP)
                   ELSE cleaned_content[k] = event.before[k]

\* ------------------------------- claims about the stripped buffer
\* C24: in the markup view, for every annotation the loop has finished with
\* whose expected text is the extracted text, has no whitespace at its ends
\* and no block tag: if its range of the stripped buffer holds whitespace
\* only, the loop yielded HTML_INVISIBLE_TEXT for it and nothing else; if the
\* range holds something else and its first or last position was blanked,
\* the loop yielded HTML_LEADING_OR_TRAILING_SPACE and nothing else.
C24_InvisibleOrSpaceAfterStripping ==
    (view = "html" /\ check_state \in {"checking", "returned", "raised"}) =>
        \A k \in Checked :
            HasExpectedText(annotations[k]) =>
                LET offset == OffsetIn(annotations[k], view)
                    text == GetTextAt(CheckedContent, offset)
                    clean_text == GetTextAt(clean_content, offset)
                    kinds == KindsYieldedFor(annotations[k])
                    n == Len(clean_text)
                    Blanked(j) == clean_text[j] = SP /\ text[j] # SP
                    visible == {j \in 1..n : clean_text[j] \notin Whitespace}
                IN (/\ text = offset.text
                    /\ Strip(text) = text
                    /\ FindHtmlBlockTag(text) = <<>>) =>
                       /\ visible = {} => kinds = <<"HTML_INVISIBLE_TEXT">>
                       /\ (visible # {} /\ (Blanked(1) \/ Blanked(n))) =>
                              kinds = <<"HTML_LEADING_OR_TRAILING_SPACE">>

\* C24 witness: the markup check of the page '<b>(' has finished with two
\* annotations: the span of the first is the inline tag alone and its record
\* is the invisible text one, the span of the second is the tag and the
\* character after it and its record is the whitespace one.
C24_Witness ==
    /\ view = "html" /\ raw_content = PageInlineTag
    /\ ann_index = 2
    /\ annotations[1].html_offset = Offset(<<0, 0>>, <<0, 3>>, TRUE, <<LT, "b", GT>>)
    /\ annotations[2].html_offset = Offset(<<0, 0>>, <<0, 4>>, TRUE, PageInlineTag)
    /\ KindsYieldedFor(annotations[1]) = <<"HTML_INVISIBLE_TEXT">>
    /\ KindsYieldedFor(annotations[2]) = <<"HTML_LEADING_OR_TRAILING_SPACE">>

\* ------------------------------- claims about full-width delimiters
\* The ASCII delimiter a full-width delimiter stands for; any other
\* character stands for itself.
AsciiCounterpart(ch) ==
    CASE ch = "fullwidth(" -> "("
      [] ch = "fullwidth)" -> ")"
      [] ch = "fullwidth[" -> "["
      [] ch = "fullwidth]" -> "]"
      [] ch = "fullwidth{" -> "{"
      [] ch = "fullwidth}" -> "}"
      [] ch = "fullwidth<" -> LT
      [] ch = "fullwidth>" -> GT
      [] OTHER -> ch

IsFullWidth(ch) == AsciiCounterpart(ch) # ch

\* C25: _braces_paired treats a full-width delimiter as its ASCII
\* counterpart: an opener and the closer of the same pair, one of them
\* ASCII and the other full-width, are paired, and for a text without
\* half-width corner brackets the result is that for the text with every
\* full-width delimiter replaced.
C25_FullWidthAsAscii ==
    ret.op = "_braces_paired" =>
        LET text == ret.args[1]
            ascii == [k \in 1..Len(text) |-> AsciiCounterpart(text[k])]
        IN /\ (/\ Len(text) = 2
               /\ IsFullWidth(text[1]) # IsFullWidth(text[2])
               /\ MatchingPair(ascii[1], ascii[2])) => ret.val[1]
           /\ (\A k \in 1..Len(text) :
                   text[k] \notin {"halfwidthcornerL", "halfwidthcornerR"}) =>
                  (ret.val[1] <=> ProperlyNested(DelimitersOf(ascii)))

\* C25 witness: _braces_paired returned true for an ASCII opener closed by
\* the full-width closer followed by a full-width opener closed by the
\* ASCII closer.
C25_Witness ==
    /\ ret.op = "_braces_paired"
    /\ ret.args[1] = <<"(", "fullwidth)", "fullwidth(", ")">>
    /\ ret.val = <<TRUE>>

\* ------------------------------- claims about spans with start >= end
\* C26 as claimed: for a sorted tuple that holds a triple with
\* start >= end, the detector aborts on the assertion.
C26_ImproperAlwaysAborts ==
    (/\ overlap_state # "idle"
     /\ SortedByStartEnd(sorted_indexed_annotations)
     /\ ~ProperSpans(sorted_indexed_annotations)) =>
        overlap_state = "raised"

\* C26 amended: for a sorted tuple the detector aborts on the assertion
\* exactly when a triple with start >= end is one of two triples of which the
\* earlier in the tuple ends after the later starts; a triple with
\* start >= end that is in no such pair (a single triple, or one the scan
\* breaks at) does not make it abort.
C26_AbortsWhenImproperCompared ==
    (overlap_state # "idle" /\ SortedByStartEnd(sorted_indexed_annotations)) =>
        (overlap_state = "raised" <=>
            \E i, j \in 1..Len(sorted_indexed_annotations) :
                LET a == sorted_indexed_annotations[i]
                    b == sorted_indexed_annotations[j]
                IN /\ i < j
                   /\ EndOf(a) > StartOf(b)
                   /\ (StartOf(a) >= EndOf(a) \/ StartOf(b) >= EndOf(b)))

\* C26 witness: the detector aborted on a sorted tuple of three triples
\* whose last has start > end and starts before the first ends, and whose
\* second has start = end.
C26_Witness ==
    /\ overlap_state = "raised"
    /\ sorted_indexed_annotations = <<<<0, 3, 1>>, <<1, 1, 2>>, <<2, 1, 3>>>>

\* ------------------------------- claims about the groups of the overlap stage
\* The triple (absolute start, absolute end, annotation_id) of an annotation
\* in the view checked, the offsets taken with get_char_offset.
AbsoluteTriple(annotation) ==
    LET offset == OffsetIn(annotation, view)
    IN <<GetCharOffset(line_offsets, offset.start[1], offset.start[2]),
         GetCharOffset(line_offsets, offset.end[1], offset.end[2]),
         annotation.annotation_id>>

\* The annotation with the given annotation_id: its place in the tuple.
AnnotationWithId(annotation_id) == annotations[annotation_id + 1]

\* C27: every overlap record of a check names two annotations of one
\* attribute, the attribute of the record, and the annotation it is
\* attributed to comes before the other in the order of (start, end)
\* absolute offsets; annotations of different attributes are in no overlap
\* record together, whatever their ranges.
C27_OverlapsWithinAttributeSorted ==
    check_state \in {"checking", "returned", "raised"} =>
        \A r \in 1..Len(results) :
            results[r].error_type \in OverlapErrorTypes =>
                LET a == AnnotationWithId(results[r].error_detail[2])
                    b == AnnotationWithId(results[r].error_detail[3])
                IN /\ a.attribute = results[r].error_detail[1]
                   /\ b.attribute = results[r].error_detail[1]
                   /\ results[r].annotation_id = a.annotation_id
                   /\ TripleLess(AbsoluteTriple(a), AbsoluteTriple(b))

\* C27 witness: a check returned for two annotations of different
\* attributes that have the same span of one character or more, and no
\* overlap record was yielded.
C27_Witness ==
    /\ check_state = "returned"
    /\ Len(annotations) = 2
    /\ annotations[1].attribute # annotations[2].attribute
    /\ OffsetIn(annotations[1], view).some
    /\ OffsetIn(annotations[1], view).start = OffsetIn(annotations[2], view).start
    /\ OffsetIn(annotations[1], view).end = OffsetIn(annotations[2], view).end
    /\ AbsoluteTriple(annotations[1])[1] < AbsoluteTriple(annotations[1])[2]
    /\ \A r \in 1..Len(results) : results[r].error_type \notin OverlapErrorTypes

\* ------------------------------- claims about the records of the overlap stage
\* The loop over the annotations has finished with every annotation of the
\* page and the overlap stage was entered.
OverlapStageEntered ==
    /\ check_state \in {"returned", "raised"}
    /\ ann_index >= 1 /\ ann_index = Len(annotations)

\* The annotation has a span for the view, on lines of the page and of one
\* character or more.
ProperForView(annotation) ==
    /\ OffsetIn(annotation, view).some
    /\ ~OffsetRaises(line_offsets, OffsetIn(annotation, view))
    /\ AbsoluteTriple(annotation)[1] < AbsoluteTriple(annotation)[2]

\* The ranges of two annotations with spans share a position.
SpansIntersect(a, b) ==
    /\ AbsoluteTriple(a)[1] < AbsoluteTriple(b)[2]
    /\ AbsoluteTriple(b)[1] < AbsoluteTriple(a)[2]

\* The overlap records attributed to a that name b as the other annotation.
OverlapRecordsOf(a, b) ==
    {r \in 1..Len(results) :
        /\ results[r].error_type \in OverlapErrorTypes
        /\ results[r].annotation_id = a.annotation_id
        /\ results[r].error_detail[3] = b.annotation_id}

\* C28: on a page whose annotations each have no span for the view or a
\* span of one character or more, the overlap stage runs over every
\* annotation, those with a per-annotation record included: it returns, and
\* for two annotations of one attribute whose ranges share a position it
\* yields exactly one overlap record, attributed to the earlier of the two in
\* the sorted order, and for any other two annotations none.
C28_OneRecordPerOverlappingPair ==
    (/\ OverlapStageEntered
     /\ \A k \in 1..Len(annotations) :
            ~OffsetIn(annotations[k], view).some \/ ProperForView(annotations[k])) =>
        /\ check_state = "returned"
        /\ \A k, m \in 1..Len(annotations) :
               LET a == annotations[k]
                   b == annotations[m]
               IN k # m =>
                      Cardinality(OverlapRecordsOf(a, b)) =
                          IF /\ a.attribute = b.attribute
                             /\ ProperForView(a) /\ ProperForView(b)
                             /\ SpansIntersect(a, b)
                             /\ TripleLess(AbsoluteTriple(a), AbsoluteTriple(b))
                          THEN 1
                          ELSE 0

\* ---------------------------------------- inspect_annotations_by_category
\* The pages of the category are numbered 1..MaxPages.
MaxPages == 3
PageIds == 1..MaxPages

\* ErrorType of annotation.py: the members in the order declared;
\* enum.auto() gives them the values 1, 2, ... in that order.
ErrorTypes ==
    <<"HTML_FILE_NOT_FOUND", "HTML_OFFSET_MISMATCH",
      "HTML_LEADING_OR_TRAILING_SPACE", "HTML_WITH_BLOCK_TAG",
      "HTML_INVISIBLE_TEXT", "HTML_UNPAIRED_BRACES",
      "HTML_OVERLAPPED_ANNOTATIONS", "TEXT_FILE_NOT_FOUND",
      "TEXT_OFFSET_MISMATCH", "TEXT_LEADING_OR_TRAILING_SPACE",
      "TEXT_UNPAIRED_BRACES", "TEXT_OVERLAPPED_ANNOTATIONS">>

ErrorTypeNames == {ErrorTypes[v] : v \in 1..Len(ErrorTypes)}

\* ErrorType.value
ErrorTypeValue(error_type) ==
    CHOOSE v \in 1..Len(ErrorTypes) : ErrorTypes[v] = error_type

\* annotation_id=None of a FILE_NOT_FOUND result: it is compared with None
\* only, and is equal to it.
NoAnnotationId == 0 - 1

\* _InspectAnnotationsTaskResult: the category is that of the call for every
\* result and the annotation is named by annotation_id; error_detail is a
\* number standing for the message.
InspectAnnotationsTaskResult(error_type, page_id, annotation_id, error_detail) ==
    [error_type |-> error_type, page_id |-> page_id,
     annotation_id |-> annotation_id, error_detail |-> error_detail]

\* ErrorType.__lt__
ErrorTypeLess(a, b) == ErrorTypeValue(a) < ErrorTypeValue(b)

\* a < b for two results, as tuples: the first field that differs decides.
TaskResultLess(a, b) ==
    \/ ErrorTypeLess(a.error_type, b.error_type)
    \/ /\ a.error_type = b.error_type
       /\ \/ a.page_id < b.page_id
          \/ /\ a.page_id = b.page_id
             /\ \/ a.annotation_id < b.annotation_id
                \/ /\ a.annotation_id = b.annotation_id
                   /\ a.error_detail < b.error_detail

\* Mutant of SortedTaskResults: the results are written as they arrive.
UnsortedTaskResults(task_result_list) == task_result_list

\* sorted(...) of the results: a stable sort.
RECURSIVE SortedTaskResults(_)
SortedTaskResults(task_result_list) ==
    IF task_result_list = <<>>
    THEN <<>>
    ELSE LET n == Len(task_result_list)
             x == task_result_list[n]
             front == SortedTaskResults(SubSeq(task_result_list, 1, n - 1))
             k == Cardinality({i \in 1..Len(front) : ~TaskResultLess(x, front[i])})
         IN SubSeq(front, 1, k) \o <<x>> \o SubSeq(front, k + 1, Len(front))

\* What _inspect_annotations_task can give for a page: no result; the two
\* FILE_NOT_FOUND results; results of the markup check in the order of the
\* annotations, then its overlap records, then those of the text check; or
\* an exception of a check, which the pool re-raises in the caller.
TaskOutcomes(page_id) ==
    {[raised |-> FALSE, task_results |-> <<>>],
     [raised |-> FALSE, task_results |->
         <<InspectAnnotationsTaskResult("HTML_FILE_NOT_FOUND", page_id, NoAnnotationId, 0),
           InspectAnnotationsTaskResult("TEXT_FILE_NOT_FOUND", page_id, NoAnnotationId, 0)>>],
     [raised |-> FALSE, task_results |->
         <<InspectAnnotationsTaskResult("HTML_UNPAIRED_BRACES", page_id, 0, 0),
           InspectAnnotationsTaskResult("HTML_OFFSET_MISMATCH", page_id, 1, 0),
           InspectAnnotationsTaskResult("HTML_OVERLAPPED_ANNOTATIONS", page_id, 0, 2),
           InspectAnnotationsTaskResult("HTML_OVERLAPPED_ANNOTATIONS", page_id, 0, 1),
           InspectAnnotationsTaskResult("TEXT_OFFSET_MISMATCH", page_id, 1, 0)>>],
     [raised |-> TRUE, task_results |-> <<>>]}

\* A category of MaxPages pages is given to inspect_annotations_by_category.
InitCategory ==
    /\ built = "none"
    /\ raw_content = <<>>
    /\ line_offsets = <<>>
    /\ ret = NoRet
    /\ CleanerIdle
    /\ OverlapIdle
    /\ view = "none"
    /\ CheckIdle
    /\ page_state = "idle"
    /\ page_results = <<>>
    /\ inspect_state = "idle"
    /\ \E outcomes \in [PageIds -> UNION {TaskOutcomes(page_id) : page_id \in PageIds}] :
           /\ \A page_id \in PageIds : outcomes[page_id] \in TaskOutcomes(page_id)
           /\ task_results = outcomes
    /\ completed = <<>>
    /\ rows = <<>>
    /\ error_count_by_type = <<>>

\* inspect_annotations_by_category up to the loop: the tasks are handed to
\* the pool and the header row is written.
InspectAnnotationsByCategory ==
    /\ inspect_state = "idle"
    /\ inspect_state' = "collecting"
    /\ error_count_by_type' = [error_type \in ErrorTypeNames |-> 0]
    /\ UNCHANGED <<content_vars, ret, cleaner_vars, overlap_vars, check_vars,
                   page_state, page_results, task_results, completed, rows>>

\* pool.imap_unordered yields the result of the next task to complete, any
\* of those not yet yielded, or re-raises what the task raised.
TaskCompletes(page_id) ==
    /\ inspect_state = "collecting"
    /\ \A k \in 1..Len(completed) : completed[k] # page_id
    /\ IF task_results[page_id].raised
       THEN inspect_state' = "raised" /\ completed' = completed
       ELSE inspect_state' = inspect_state /\ completed' = Append(completed, page_id)
    /\ UNCHANGED <<content_vars, ret, cleaner_vars, overlap_vars, check_vars,
                   page_state, page_results, task_results, rows, error_count_by_type>>

\* chain.from_iterable over the results of the pages, in the order given.
RECURSIVE ChainFromIterable(_)
ChainFromIterable(page_ids) ==
    IF page_ids = <<>>
    THEN <<>>
    ELSE task_results[Head(page_ids)].task_results \o ChainFromIterable(Tail(page_ids))

\* The number of results of a kind among results.
CountOfType(task_result_list, error_type) ==
    Cardinality({k \in 1..Len(task_result_list) :
                    task_result_list[k].error_type = error_type})

\* Every task has completed: sorted(...) returns and the loop writes one row
\* per result and counts it under its error_type.
WriteRows ==
    /\ inspect_state = "collecting"
    /\ Len(completed) = MaxPages
    /\ LET written == SortedTaskResults(ChainFromIterable(completed))
       IN /\ rows' = written
          /\ error_count_by_type' =
                 [error_type \in ErrorTypeNames |-> CountOfType(written, error_type)]
    /\ inspect_state' = "returned"
    /\ UNCHANGED <<content_vars, ret, cleaner_vars, overlap_vars, check_vars,
                   page_state, page_results, task_results, completed>>

NextCategory ==
    \/ InspectAnnotationsByCategory
    \/ \E page_id \in PageIds : TaskCompletes(page_id)
    \/ WriteRows

SpecCategory == InitCategory /\ [][NextCategory]_vars

\* ------------------------------- claims about the rows of a category
\* Every result of every task of the category.
AllTaskResults ==
    UNION {{task_results[page_id].task_results[k] :
               k \in 1..Len(task_results[page_id].task_results)} :
           page_id \in PageIds}

\* a comes before b in the order of the rows: by the place of the kind in
\* the declaration of ErrorType, then by page, annotation and detail.
RowBefore(a, b) ==
    LET Place(error_type) ==
            CHOOSE v \in 1..Len(ErrorTypes) : ErrorTypes[v] = error_type
        key(r) == <<Place(r.error_type), r.page_id, r.annotation_id, r.error_detail>>
    IN \E f \in 1..4 :
           /\ key(a)[f] < key(b)[f]
           /\ \A g \in 1..(f - 1) : key(a)[g] = key(b)[g]

\* C29: when inspect_annotations_by_category returns, in whatever order the
\* tasks completed, the rows written are the results of all tasks, each
\* once, in the one order that puts the kinds in their declaration order and
\* then pages, annotations and details in increasing order, and the count
\* returned for each kind is the number of rows of that kind; no row is
\* written unless every task returned.
C29_RowsSortedWhateverTheOrder ==
    /\ inspect_state = "returned" =>
           /\ {rows[k] : k \in 1..Len(rows)} = AllTaskResults
           /\ \A k \in 1..(Len(rows) - 1) : RowBefore(rows[k], rows[k + 1])
           /\ \A error_type \in ErrorTypeNames :
                  error_count_by_type[error_type] =
                      Cardinality({k \in 1..Len(rows) : rows[k].error_type = error_type})
    /\ inspect_state # "returned" => rows = <<>>

\* C29 witness: the tasks completed in the order 3, 1, 2, two of them with
\* results of several kinds, and the rows written start with those of the
\* first kind declared, page 1 before page 3.
C29_Witness ==
    /\ inspect_state = "returned"
    /\ completed = <<3, 1, 2>>
    /\ Len(task_results[3].task_results) = 5
    /\ Len(task_results[1].task_results) = 2
    /\ Len(rows) >= 7
    /\ rows[1] = InspectAnnotationsTaskResult("HTML_FILE_NOT_FOUND", 1, NoAnnotationId, 0)
    /\ rows[2].error_type = "HTML_OFFSET_MISMATCH" /\ rows[2].page_id = 3

\* ------------------------------------------------------ _inspect_page_task
\* Content.from_file(args.html_file_path): open raises when there is no
\* such file, and Content(fin.read()) raises when the file is empty.
FromFile ==
    \/ \E raw \in CleanerTexts \cup {<<>>} : ContentInit(raw)
    \/ /\ built = "none"
       /\ built' = "failed"
       /\ ret' = Ret("open", <<>>, FALSE, <<>>, <<>>)
       /\ UNCHANGED <<raw_content, line_offsets, cleaner_vars, overlap_vars,
                      check_vars, task_vars>>

\* _InspectPageTaskResult; the page_id is that of the args, the error_detail
\* names what the message is about.
InspectPageTaskResult(error_type, error_detail) ==
    [error_type |-> error_type, error_detail |-> error_detail]

\* _contains_html_reserved_character
ContainsHtmlReservedCharacter(text) ==
    \E k \in 1..Len(text) : text[k] \in {LT, GT}

\* Mutant of InspectPageTaskResults: no except clause, a failure leaves the
\* results empty.
InspectPageTaskResultsNoExcept(failed, html_raw_content, clean_raw_content) ==
    IF failed
    THEN <<>>
    ELSE IF Len(html_raw_content) # Len(clean_raw_content)
    THEN <<InspectPageTaskResult("CLEAN_HTML_ERROR", "Content length mismatch")>>
    ELSE IF ContainsHtmlReservedCharacter(clean_raw_content)
    THEN <<InspectPageTaskResult("WITH_HTML_UNESCAPED_RESERVED_CHARACTER",
                                 "Contains html reserved character")>>
    ELSE <<>>

\* The results of _inspect_page_task: failed when from_file or
\* clean_html_content raised, which the except clause turns into a result.
InspectPageTaskResults(failed, html_raw_content, clean_raw_content) ==
    IF failed
    THEN <<InspectPageTaskResult("CLEAN_HTML_ERROR", "exception")>>
    ELSE IF Len(html_raw_content) # Len(clean_raw_content)
    THEN <<InspectPageTaskResult("CLEAN_HTML_ERROR", "Content length mismatch")>>
    ELSE IF ContainsHtmlReservedCharacter(clean_raw_content)
    THEN <<InspectPageTaskResult("WITH_HTML_UNESCAPED_RESERVED_CHARACTER",
                                 "Contains html reserved character")>>
    ELSE <<>>

\* _inspect_page_task after from_file raised or clean_html returned or
\* raised: clean_html_content builds a Content of the cleaned text, then the
\* lengths and the reserved characters are checked, and the task returns.
InspectPageTaskReturn ==
    /\ page_state = "idle"
    /\ built = "failed" \/ clean_state \in {"returned", "raised"}
    /\ LET failed == \/ built = "failed"
                     \/ clean_state = "raised"
                     \/ ~AssertRawContent(ret.text)
       IN page_results' = InspectPageTaskResults(failed, raw_content, ret.text)
    /\ page_state' = "returned"
    /\ UNCHANGED <<content_vars, ret, cleaner_vars, overlap_vars, check_vars,
                   inspect_state, task_results, completed, rows,
                   error_count_by_type>>

NextPage ==
    \/ FromFile
    \/ NextCleaner
    \/ InspectPageTaskReturn

SpecPage == Init /\ [][NextPage]_vars

\* ------------------------------- claims about _inspect_page_task
\* C30: _inspect_page_task returns whatever happened, with at most one
\* result: CLEAN_HTML_ERROR alone when reading or cleaning failed (no file,
\* empty file, cleaner error) or the cleaned text has another length;
\* otherwise WITH_HTML_UNESCAPED_RESERVED_CHARACTER alone when a '<' or a
\* '>' is left in the cleaned text; otherwise nothing.
C30_AtMostOneResultPerPage ==
    /\ page_state = "returned" =>
           /\ Len(page_results) <= 1
           /\ LET kinds == [k \in 1..Len(page_results) |-> page_results[k].error_type]
                  failure == built = "failed" \/ clean_state = "raised"
                  reserved == \E k \in 1..Len(cleaned_content) :
                                  cleaned_content[k] = LT \/ cleaned_content[k] = GT
              IN kinds = IF failure \/ Len(cleaned_content) # Len(raw_content)
                         THEN <<"CLEAN_HTML_ERROR">>
                         ELSE IF reserved
                         THEN <<"WITH_HTML_UNESCAPED_RESERVED_CHARACTER">>
                         ELSE <<>>
    /\ page_state = "idle" => page_results = <<>>

\* C30 witness: the task returned the one CLEAN_HTML_ERROR result for a page
\* on which the cleaner raised.
C30_Witness ==
    /\ page_state = "returned"
    /\ raw_content = DocEndScript
    /\ clean_state = "raised"
    /\ page_results = <<InspectPageTaskResult("CLEAN_HTML_ERROR", "exception")>>

====
